---------------------------- MODULE Spec2Model ----------------------------
(***************************************************************************)
(* Tuition-Data: the bulk (threaded) and async collection pipelines, the   *)
(* filters they apply, and the CSV persistence layer with its append /     *)
(* merge / dedup behaviour.                                                *)
(*                                                                         *)
(* A Python string is a tuple of one-character strings, so that lower(),   *)
(* strip(), substring search and the experience regex are computed and not *)
(* assumed.  Python's None is the value None below.                        *)
(***************************************************************************)
EXTENDS Integers, Sequences, FiniteSets, TLC

None == <<"<None>">>

\* a value that is not a string: a JSON object or number
NotText == <<"<dict>">>

(***************************************************************************)
(* str helpers                                                             *)
(***************************************************************************)
UpperCase ==
    << "A", "B", "C", "D", "E", "F", "G", "H", "I", "J", "K", "L", "M",
       "N", "O", "P", "Q", "R", "S", "T", "U", "V", "W", "X", "Y", "Z" >>

LowerCase ==
    << "a", "b", "c", "d", "e", "f", "g", "h", "i", "j", "k", "l", "m",
       "n", "o", "p", "q", "r", "s", "t", "u", "v", "w", "x", "y", "z" >>

Whitespace == {" ", "\t", "\n"}

Digits == << "0", "1", "2", "3", "4", "5", "6", "7", "8", "9" >>

LowerChar(c) ==
    IF \E i \in DOMAIN UpperCase : UpperCase[i] = c
    THEN LowerCase[CHOOSE i \in DOMAIN UpperCase : UpperCase[i] = c]
    ELSE c

\* str.lower()
lower(s) == [i \in DOMAIN s |-> LowerChar(s[i])]

\* str.strip(): drop leading and trailing whitespace
strip(s) ==
    LET keep == {i \in DOMAIN s : s[i] \notin Whitespace}
    IN  IF keep = {} THEN <<>>
        ELSE LET first == CHOOSE i \in keep : \A j \in keep : i <= j
                 last  == CHOOSE i \in keep : \A j \in keep : j <= i
             IN  SubSeq(s, first, last)

\* `v or ""`
OrEmpty(v) == IF v = None THEN <<>> ELSE v

\* does `needle` occur at position i of `hay`
OccursAt(needle, hay, i) ==
    /\ i + Len(needle) - 1 <= Len(hay)
    /\ \A k \in 1..Len(needle) : hay[i + k - 1] = needle[k]

\* `needle in hay`
Contains(needle, hay) ==
    \E i \in 1..(Len(hay) + 1) : OccursAt(needle, hay, i)

\* any(w in hay for w in words)
ContainsAny(words, hay) ==
    \E n \in DOMAIN words : Contains(words[n], hay)

\* " ".join(parts)
RECURSIVE JoinSpace(_)
JoinSpace(parts) ==
    IF parts = <<>> THEN <<>>
    ELSE IF Len(parts) = 1 THEN parts[1]
    ELSE parts[1] \o <<" ">> \o JoinSpace(Tail(parts))

(***************************************************************************)
(* utils/classifier.py                                                     *)
(***************************************************************************)
IsDigit(c) == \E d \in DOMAIN Digits : Digits[d] = c

DigitVal(c) == (CHOOSE d \in DOMAIN Digits : Digits[d] = c) - 1

\* int() of a run of digits
RECURSIVE IntOf(_)
IntOf(ds) ==
    IF ds = <<>> THEN 0
    ELSE 10 * IntOf(SubSeq(ds, 1, Len(ds) - 1)) + DigitVal(ds[Len(ds)])

\* last index of the maximal run of digits that starts at i
RunEnd(s, i) ==
    CHOOSE j \in i..Len(s) :
        /\ \A k \in i..j : IsDigit(s[k])
        /\ (j = Len(s) \/ ~IsDigit(s[j + 1]))

\* first index at or after i that holds no whitespace (Len(s)+1 if none)
SkipSpace(s, i) ==
    CHOOSE j \in i..(Len(s) + 1) :
        /\ \A k \in i..(j - 1) : s[k] \in Whitespace
        /\ (j = Len(s) + 1 \/ s[j] \notin Whitespace)

\* (\d+)\+?\s*(?:years?|yrs?) matched with the digits starting at index i
ExpMatchAt(s, i) ==
    /\ IsDigit(s[i])
    /\ LET e  == RunEnd(s, i)
           p  == IF e < Len(s) /\ s[e + 1] = "+" THEN e + 2 ELSE e + 1
           q  == SkipSpace(s, p)
       IN  \/ OccursAt(<<"y", "e", "a", "r">>, s, q)
           \/ OccursAt(<<"y", "r">>, s, q)

\* parse_experience_years: the leftmost match of the pattern in the
\* lower-cased text.  Optional[int] is a set: {} for None, {n} for n.
parse_experience_years(experience_str) ==
    IF experience_str = <<>> \/ experience_str = None THEN {}
    ELSE LET s    == lower(experience_str)
             hits == {i \in DOMAIN s : ExpMatchAt(s, i)}
         IN  IF hits = {} THEN {}
             ELSE LET i == CHOOSE h \in hits : \A g \in hits : h <= g
                  IN  {IntOf(SubSeq(s, i, RunEnd(s, i)))}

indian_cities ==
    << <<"d", "e", "l", "h", "i">>, <<"n", "e", "w", " ", "d", "e", "l", "h", "i">>,
       <<"m", "u", "m", "b", "a", "i">>, <<"b", "o", "m", "b", "a", "y">>,
       <<"b", "a", "n", "g", "a", "l", "o", "r", "e">>, <<"b", "e", "n", "g", "a", "l", "u", "r", "u">>,
       <<"c", "h", "e", "n", "n", "a", "i">>, <<"k", "o", "l", "k", "a", "t", "a">>,
       <<"h", "y", "d", "e", "r", "a", "b", "a", "d">>, <<"p", "u", "n", "e">>,
       <<"a", "h", "m", "e", "d", "a", "b", "a", "d">>, <<"j", "a", "i", "p", "u", "r">>,
       <<"l", "u", "c", "k", "n", "o", "w">>, <<"k", "a", "n", "p", "u", "r">>,
       <<"n", "a", "g", "p", "u", "r">>, <<"i", "n", "d", "o", "r", "e">>,
       <<"b", "h", "o", "p", "a", "l">>,
       <<"v", "i", "s", "a", "k", "h", "a", "p", "a", "t", "n", "a", "m">>, <<"v", "i", "z", "a", "g">>,
       <<"s", "u", "r", "a", "t">>, <<"p", "a", "t", "n", "a">>,
       <<"v", "a", "d", "o", "d", "a", "r", "a">>, <<"g", "u", "r", "g", "a", "o", "n">>,
       <<"n", "o", "i", "d", "a">>, <<"t", "h", "a", "n", "e">>,
       <<"f", "a", "r", "i", "d", "a", "b", "a", "d">>, <<"g", "h", "a", "z", "i", "a", "b", "a", "d">>,
       <<"l", "u", "d", "h", "i", "a", "n", "a">>, <<"a", "g", "r", "a">>,
       <<"n", "a", "s", "h", "i", "k">>, <<"p", "i", "m", "p", "r", "i">>,
       <<"a", "u", "r", "a", "n", "g", "a", "b", "a", "d">>, <<"r", "a", "j", "k", "o", "t">>,
       <<"m", "e", "e", "r", "u", "t">>, <<"v", "a", "r", "a", "n", "a", "s", "i">>,
       <<"m", "a", "d", "u", "r", "a", "i">>, <<"c", "o", "i", "m", "b", "a", "t", "o", "r", "e">>,
       <<"t", "r", "i", "c", "h", "y">>,
       <<"t", "i", "r", "u", "c", "h", "i", "r", "a", "p", "p", "a", "l", "l", "i">>,
       <<"m", "a", "n", "g", "a", "l", "o", "r", "e">>, <<"k", "o", "c", "h", "i">>,
       <<"t", "r", "i", "v", "a", "n", "d", "r", "u", "m">>,
       <<"t", "h", "i", "r", "u", "v", "a", "n", "a", "n", "t", "h", "a", "p", "u", "r", "a", "m">>,
       <<"b", "h", "u", "b", "a", "n", "e", "s", "w", "a", "r">>, <<"r", "a", "n", "c", "h", "i">>,
       <<"g", "u", "w", "a", "h", "a", "t", "i">>, <<"a", "m", "r", "i", "t", "s", "a", "r">>,
       <<"d", "e", "h", "r", "a", "d", "u", "n">>, <<"j", "a", "l", "a", "n", "d", "h", "a", "r">>,
       <<"g", "w", "a", "l", "i", "o", "r">>, <<"j", "o", "d", "h", "p", "u", "r">>,
       <<"r", "a", "i", "p", "u", "r">> >>

city_hints ==
    << <<"d", "e", "l", "h", "i">>, <<"m", "u", "m", "b", "a", "i">>,
       <<"b", "a", "n", "g", "a", "l", "o", "r", "e">>, <<"b", "e", "n", "g", "a", "l", "u", "r", "u">>,
       <<"c", "h", "e", "n", "n", "a", "i">>, <<"k", "o", "l", "k", "a", "t", "a">>,
       <<"h", "y", "d", "e", "r", "a", "b", "a", "d">>, <<"p", "u", "n", "e">>,
       <<"a", "h", "m", "e", "d", "a", "b", "a", "d">>, <<"j", "a", "i", "p", "u", "r">> >>

india_words ==
    << <<"i", "n", "d", "i", "a">>, <<"i", "n", "d", "i", "a", "n">> >>

\* is_indian_profile: the location names India or a known city, else the
\* name, title and description together do
is_indian_profile(profile) ==
    LET loc   == strip(OrEmpty(profile.location))
        loc_l == lower(loc)
        text  == lower(JoinSpace(<< OrEmpty(profile.name),
                                    OrEmpty(profile.title),
                                    OrEmpty(profile.description) >>))
    IN  \/ /\ loc # <<>>
           /\ \/ Contains(india_words[1], loc_l)
              \/ ContainsAny(indian_cities, loc_l)
        \/ ContainsAny(india_words, text)
        \/ ContainsAny(city_hints, text)

(***************************************************************************)
(* Listings.  A listing is the dict the adapters return; the values below  *)
(* are the inputs the runs draw from.                                      *)
(***************************************************************************)
Listing(name, description, link, source, location, experience, role) ==
    [ name |-> name, title |-> name, description |-> description,
      profile_link |-> link, source |-> source, location |-> location,
      experience |-> experience, role |-> role ]

\* one profile as three adapters return it: same link up to case and
\* surrounding blanks, different experience strings
asha_superprof ==
    Listing(<<"A", "s", "h", "a">>, <<"t", "u", "t", "o", "r">>,
            <<"u", "/", "1">>, <<"S", "u", "p", "e", "r", "p", "r", "o", "f">>,
            <<"M", "u", "m", "b", "a", "i">>, <<"3", " ", "y", "r", "s">>, "Tutor")

asha_google ==
    Listing(<<"A", "s", "h", "a">>, <<"t", "u", "t", "o", "r", " ", "i", "n", " ", "D", "e", "l", "h", "i">>,
            <<"U", "/", "1", " ">>, <<"G", "o", "o", "g", "l", "e">>,
            None, <<"6", " ", "y", "e", "a", "r", "s">>, "Tutor")

asha_urbanpro ==
    Listing(<<"A", "s", "h", "a">>, <<>>,
            <<"u", "/", "1">>, <<"U", "r", "b", "a", "n", "P", "r", "o">>,
            <<"P", "u", "n", "e">>, <<"2", " ", "y", "e", "a", "r", "s">>, "Tutor")

\* listings without a link: None as the platform adapters leave it, ""
\* as the API adapter and the async normalizer leave it
ravi ==
    Listing(<<"R", "a", "v", "i">>, <<>>,
            None, <<"U", "r", "b", "a", "n", "P", "r", "o">>,
            <<"D", "e", "l", "h", "i">>, <<"1", " ", "y", "e", "a", "r">>, "Tutor")

ravi_again ==
    Listing(<<" ", "r", "a", "v", "i">>, <<>>,
            None, <<"u", "r", "b", "a", "n", "p", "r", "o">>,
            <<"A", "g", "r", "a">>, <<"2", " ", "y", "r", "s">>, "Tutor")

mina ==
    Listing(<<"M", "i", "n", "a">>, <<>>,
            <<>>, <<"U", "r", "b", "a", "n", "p", "r", "o">>,
            <<"P", "u", "n", "e">>, <<"4", " ", "y", "e", "a", "r", "s">>, "Tutor")

kiran ==
    Listing(<<"K", "i", "r", "a", "n">>,
            <<"3", " ", "y", "e", "a", "r", "s", " ", "C", "h", "e", "n", "n", "a", "i">>,
            <<"u", "/", "2">>, <<"G", "o", "o", "g", "l", "e">>,
            <<"C", "h", "e", "n", "n", "a", "i">>, <<"3", " ", "y", "e", "a", "r", "s">>, "Unknown")

dev ==
    Listing(<<"D", "e", "v">>, <<"s", "t", "u", "d", "e", "n", "t">>,
            <<"u", "/", "3">>, <<"S", "u", "p", "e", "r", "p", "r", "o", "f">>,
            <<"K", "o", "l", "k", "a", "t", "a">>, <<"2", " ", "y", "e", "a", "r", "s">>, "Student")

tom ==
    Listing(<<"T", "o", "m">>, <<"t", "u", "t", "o", "r">>,
            <<"u", "/", "4">>, <<"S", "u", "p", "e", "r", "p", "r", "o", "f">>,
            <<"A", "u", "s", "t", "i", "n", ",", " ", "T", "X">>, <<"3", " ", "y", "e", "a", "r", "s">>, "Tutor")

lata ==
    Listing(<<"L", "a", "t", "a">>, <<"t", "u", "t", "o", "r">>,
            <<"u", "/", "5">>, <<"S", "u", "p", "e", "r", "p", "r", "o", "f">>,
            <<"M", "u", "m", "b", "a", "i">>, <<"e", "x", "p", "e", "r", "i", "e", "n", "c", "e", "d">>, "Tutor")

uma ==
    Listing(<<"U", "m", "a">>, <<"t", "u", "t", "o", "r">>,
            <<"u", "/", "6">>, <<"S", "u", "p", "e", "r", "p", "r", "o", "f">>,
            <<"M", "u", "m", "b", "a", "i">>, <<"1", "0", "+", " ", "y", "e", "a", "r", "s">>, "Tutor")

\* a listing normalize_profile built from a network payload whose `link` is
\* a JSON object: the value is passed on as it is
nila ==
    Listing(<<"N", "i", "l", "a">>, <<"t", "u", "t", "o", "r">>,
            NotText, <<"S", "u", "p", "e", "r", "p", "r", "o", "f">>,
            <<"P", "u", "n", "e">>, <<"2", " ", "y", "e", "a", "r", "s">>, "Tutor")

\* a coaching centre: no role keyword, many years
veda ==
    Listing(<<"V", "e", "d", "a">>, <<>>,
            <<"u", "/", "7">>, <<"S", "u", "p", "e", "r", "p", "r", "o", "f">>,
            <<"P", "u", "n", "e">>, <<"1", "2", " ", "y", "e", "a", "r", "s">>, "Unknown")

AllListings ==
    { asha_superprof, asha_google, asha_urbanpro, ravi, ravi_again, mina,
      kiran, dev, tom, lata, uma, nila, veda }

\* the result lists of at most n listings a page listing `page` in that
\* order can give: its subsequences
RECURSIVE BatchesOf(_, _)
BatchesOf(page, n) ==
    IF page = <<>> \/ n = 0 THEN { <<>> }
    ELSE BatchesOf(Tail(page), n)
           \cup { << Head(page) >> \o b : b \in BatchesOf(Tail(page), n - 1) }

(***************************************************************************)
(* utils/storage.py                                                        *)
(***************************************************************************)
\* key_fn of _dedup_records: the trimmed, lower-cased link, else name|source
key_fn(x) ==
    LET link == lower(strip(OrEmpty(x.profile_link)))
    IN  IF link # <<>> THEN link
        ELSE lower(strip(OrEmpty(x.name))) \o <<"|">> \o lower(strip(OrEmpty(x.source)))

\* what a dict becomes once written as a CSV line and read back by
\* csv.DictReader: every value a string, None the empty string
CsvRow(x) ==
    [ name |-> OrEmpty(x.name), title |-> OrEmpty(x.title),
      description |-> OrEmpty(x.description),
      profile_link |-> OrEmpty(x.profile_link), source |-> OrEmpty(x.source),
      location |-> OrEmpty(x.location), experience |-> OrEmpty(x.experience),
      role |-> x.role ]

CsvRows(data) == [i \in DOMAIN data |-> CsvRow(data[i])]

\* every dict the model handles: the listings and the rows read back
Dicts == AllListings \cup {CsvRow(x) : x \in AllListings}

\* the functions of a dict, tabulated once over Dicts
KeyTable == [x \in Dicts |-> key_fn(x)] @@ <<>>
YearsTable == [x \in Dicts |-> parse_experience_years(OrEmpty(x.experience))] @@ <<>>
IndianTable == [x \in Dicts |-> is_indian_profile(x)] @@ <<>>

\* _dedup_records: keep the first item of every key, in order.  An item
\* with an empty key is keyed by its own identity and always kept.
RECURSIVE dedup_loop(_, _)
RECURSIVE dedup_item(_, _, _)
\* a loop body that keeps every item
dedup_item_keeps_all(data, k, seen) ==
    <<data[1]>> \o dedup_loop(Tail(data), seen)

\* the loop body for the first item of data, whose key is k
dedup_item(data, k, seen) ==
    IF k # <<>> /\ k \in seen
    THEN dedup_loop(Tail(data), seen)
    ELSE <<data[1]>> \o dedup_loop(Tail(data), IF k = <<>> THEN seen ELSE seen \cup {k})

dedup_loop(data, seen) ==
    IF data = <<>> THEN <<>> ELSE dedup_item(data, KeyTable[data[1]], seen)

_dedup_records(data) == dedup_loop(data, {})

\* DataFrame.drop_duplicates(subset=['profile_link'], keep='first'): rows
\* compare by the raw column value; missing values (None) equal each other
RECURSIVE drop_duplicates(_, _)
drop_duplicates(rows, links) ==
    IF rows = <<>> THEN <<>>
    ELSE IF rows[1].profile_link \in links
         THEN drop_duplicates(Tail(rows), links)
         ELSE <<rows[1]>> \o drop_duplicates(Tail(rows), links \cup {rows[1].profile_link})

\* the writers of save_to_csv, given the deduplicated records: pandas, or
\* the csv module, which refuses an empty list
write_rows(files, unique, output_path, PANDAS_AVAILABLE) ==
    IF PANDAS_AVAILABLE
    THEN [ files |-> [files EXCEPT ![output_path] = CsvRows(drop_duplicates(unique, {}))],
           ok |-> TRUE ]
    ELSE IF unique = <<>>
         THEN [ files |-> files, ok |-> FALSE ]
         ELSE [ files |-> [files EXCEPT ![output_path] = CsvRows(unique)],
                ok |-> TRUE ]

\* save_to_csv: dedup, then (re)write the whole file at output_path.
\* files maps a path to the rows of the file (<<>>: no file, nothing to read).
save_to_csv(files, data, output_path, PANDAS_AVAILABLE) ==
    write_rows(files, _dedup_records(data), output_path, PANDAS_AVAILABLE)

\* paths are sequences of segments
TutorsCsv == << "data/", "tutors", ".csv" >>
StudentsCsv == << "data/", "students", ".csv" >>
AllProfilesCsv == << "data/", "all_profiles", ".csv" >>
OutCsv == << "data/", "out", ".csv" >>
TutorsAsyncCsv == << "data/", "tutors", "_async.csv" >>
StudentsAsyncCsv == << "data/", "students", "_async.csv" >>

Paths == {TutorsCsv, StudentsCsv, AllProfilesCsv, OutCsv, TutorsAsyncCsv, StudentsAsyncCsv}

\* output_path.replace('tutors', 'students')
replace_tutors(path) ==
    [i \in DOMAIN path |-> IF path[i] = "tutors" THEN "students" ELSE path[i]]

role_lower(x) ==
    CASE x.role = "Tutor" -> "tutor"
      [] x.role = "Student" -> "student"
      [] OTHER -> "unknown"

is_tutor(x) == role_lower(x) = "tutor"
is_student(x) == role_lower(x) = "student"

\* the role split of save_data: the tutors and the students of the batch
tutors_of(data) == SelectSeq(data, is_tutor)
students_of(data) == SelectSeq(data, is_student)

\* the path of the write done when the batch holds no tutor and no student
unclassified_path(output_path) ==
    IF output_path # None THEN output_path ELSE AllProfilesCsv

\* tutor_path and student_path of save_data
tutor_path_of(output_path) == IF output_path # None THEN output_path ELSE TutorsCsv

student_path_of(output_path) ==
    IF output_path # None THEN replace_tutors(output_path) ELSE StudentsCsv

\* the rows read from an existing file in append mode
existing_rows(files, path, append_mode) == IF append_mode THEN files[path] ELSE <<>>

\* `success = True` after a write that succeeded
with_success(so_far, written) ==
    [ files |-> written.files, ok |-> so_far.ok \/ written.ok ]

\* one guarded write of save_data: `if <wanted>: if save_to_csv(rows, path): ...`
save_step(so_far, wanted, rows, path, PANDAS_AVAILABLE) ==
    IF wanted
    THEN with_success(so_far, save_to_csv(so_far.files, rows, path, PANDAS_AVAILABLE))
    ELSE so_far

\* the three writes of the role split, in order: tutors, students, and the
\* whole batch when it holds neither
write_by_role(files, data, tutors, students, all_tutors, all_students, tutor_path, student_path, csv_path, PANDAS_AVAILABLE) ==
    save_step(
        save_step(
            save_step([ files |-> files, ok |-> FALSE ],
                      all_tutors # <<>>, all_tutors, tutor_path, PANDAS_AVAILABLE),
            all_students # <<>>, all_students, student_path, PANDAS_AVAILABLE),
        tutors = <<>> /\ students = <<>>, _dedup_records(data), csv_path,
        PANDAS_AVAILABLE)

\* the role split of save_data: both files are read before either is written
save_by_role(files, data, tutors, students, tutor_path, student_path, output_path, append_mode, PANDAS_AVAILABLE) ==
    write_by_role(files, data, tutors, students,
                  _dedup_records(existing_rows(files, tutor_path, append_mode) \o tutors),
                  _dedup_records(existing_rows(files, student_path, append_mode) \o students),
                  tutor_path, student_path, unclassified_path(output_path),
                  PANDAS_AVAILABLE)

\* the `if output_format in ['csv', 'both']:` block of save_data: the files
\* and whether a write set the success flag
csv_sink(files, data, output_format, output_path, separate_by_role, append_mode, PANDAS_AVAILABLE) ==
    IF output_format \notin {"csv", "both"} THEN [ files |-> files, ok |-> FALSE ]
    ELSE IF separate_by_role
    THEN save_by_role(files, data, tutors_of(data), students_of(data),
                      tutor_path_of(output_path), student_path_of(output_path),
                      output_path, append_mode, PANDAS_AVAILABLE)
    ELSE save_to_csv(files, _dedup_records(data), tutor_path_of(output_path),
                     PANDAS_AVAILABLE)

\* what the document store does while save_to_mongodb runs: it takes the
\* documents, it cannot be reached, or the insert fails
MongoConditions == {"inserts", "unreachable", "insert_fails"}

\* save_to_mongodb: connect, insert_many(data), close; every failure is
\* caught and reported as False.  Returns how many documents went in.
save_to_mongodb(data, mongo) ==
    [ ok |-> mongo = "inserts" /\ data # <<>>,
      inserted |-> IF mongo = "inserts" THEN Len(data) ELSE 0 ]

\* the `if output_format in ['mongo', 'both']:` block of save_data
mongo_sink(data, output_format, mongo) ==
    IF output_format \in {"mongo", "both"}
    THEN save_to_mongodb(data, mongo)
    ELSE [ ok |-> FALSE, inserted |-> 0 ]

\* success only if every sink that ran succeeded
all_sinks(csv, stored) ==
    [ files |-> csv.files, ok |-> csv.ok /\ stored.ok, inserted |-> stored.inserted ]

\* `success` of save_data: true once one sink succeeded
any_sink(csv, stored) ==
    [ files |-> csv.files, ok |-> csv.ok \/ stored.ok, inserted |-> stored.inserted ]

\* save_data.  Returns the files, the success flag and the number of
\* documents inserted into the document store.
save_data(files, data, output_format, output_path, separate_by_role, append_mode, PANDAS_AVAILABLE, mongo) ==
    IF data = <<>> THEN [ files |-> files, ok |-> FALSE, inserted |-> 0 ]
    ELSE any_sink(csv_sink(files, data, output_format, output_path, separate_by_role,
                           append_mode, PANDAS_AVAILABLE),
                  mongo_sink(data, output_format, mongo))


(***************************************************************************)
(* State                                                                   *)
(***************************************************************************)
VARIABLES
    mode,               \* which entry point runs: "bulk", "async", "fetch", "save"
    opts,               \* the options the entry point was called with
    PANDAS_AVAILABLE,   \* storage.py module global
    files,              \* the file system: path -> rows of the CSV file
    collected,          \* the accumulator (bulk and run_async_scrape)
    seen_keys,          \* bulk: identity keys of collected
    saved_total,        \* bulk: how many of collected were handed to save_data
    futures,            \* bulk: task -> state of its future
    finished,           \* bulk: completed futures as_completed has yet to yield
    pc,                 \* position of the orchestrator (main thread / coroutine)
    flushed_now,        \* history: the last step did a periodic flush
    returned_keys,      \* history: keys of all listings consumed so far,
                        \*          filtered out or not
    late_survivor,      \* history: a listing was accumulated whose key an
                        \*          earlier consumed future had already returned
    first_passing,      \* history: key -> first consumed listing with it that
                        \*          passed the filters
    queue,              \* async: the work queue, (subject, city) pairs not pulled yet
    unfinished_tasks,   \* async: the queue's count of items put and not task_done
    worker,             \* async: worker -> where the coroutine is suspended
    seen,               \* async: identity keys of collected
    call,               \* history: the arguments of the latest save_data call
    all_results,        \* fetch: the listings gathered from the sources
    scrapers,           \* fetch: the sources the loop has yet to visit
    exit_code,          \* fetch: {} while running, then the process exit code
    task_raised,        \* history: the scrape whose outcome was handled last raised
    api_sem,            \* bulk: permits left in the semaphore of the API tasks
    html_sem,           \* bulk: permits left in the semaphore of the other tasks
    now,                \* time.time(), in ticks
    _GLOBAL_SEM,        \* GoogleAPISearcher._GLOBAL_SEM: NoSem or a semaphore
    sems,               \* the semaphores created for it: permits left in each
    _GLOBAL_LAST_CALL,  \* GoogleAPISearcher._GLOBAL_LAST_CALL
    current_key_index,  \* GoogleAPISearcher.current_key_index
    _key_backoff_until, \* GoogleAPISearcher._key_backoff_until, 0: no entry
    thread,             \* API adapter: thread -> where it is in search()
    last_issue,         \* history: when the latest API request was sent
    too_close,          \* history: two API requests were sent less than the
                        \*          minimum interval apart
    calls_left,         \* API adapter: search() calls the run has yet to make
    page,               \* fetch_page: where the call is, its retry_count, the
                        \*             replies it got and its result
    mongo_docs,         \* the number of documents in the MongoDB collection
    saved_ok,           \* history: {} or what the latest save_data call returned
    returned,           \* the listings an adapter or the async normalizer
                        \* returned and the accumulator has not taken yet
    task,               \* one call of the async scrape_task: where it is, the
                        \* results gathered and the fallback queries made
    scrape,             \* one call of an adapter's scrape(query, limit): where
                        \*             it is, its page, what it gathered, its result
    classified          \* {} or the text classify_role is called with and
                        \* the role it returned, once it has

bulkVars == << seen_keys, saved_total, futures, finished,
               returned_keys, late_survivor, first_passing >>

asyncVars == << queue, unfinished_tasks, worker, seen >>

fetchVars == << all_results, scrapers, exit_code >>

poolVars == << api_sem, html_sem >>

\* the state of the adapters and of the thread pool seen thread by thread
apiVars == << now, _GLOBAL_SEM, sems, _GLOBAL_LAST_CALL, current_key_index,
             _key_backoff_until, thread, last_issue, too_close, calls_left >>

pageVars == << page >>

sinkVars == << mongo_docs, saved_ok >>

roleVars == << returned, classified >>

scrapeVars == << scrape, task >>

adapterVars == << poolVars, apiVars, pageVars, sinkVars, scrapeVars, roleVars, scrapeVars >>

vars == << mode, opts, PANDAS_AVAILABLE, files, pc, collected, flushed_now,
           bulkVars, asyncVars, call, fetchVars, task_raised, adapterVars >>

(***************************************************************************)
(* Bounds                                                                  *)
(***************************************************************************)
NumTasks == 2       \* tasks submitted to the pool
MaxBatch == 2       \* listings one scrape returns at most
MaxTarget == 2      \* target_count ranges over 1..MaxTarget
MaxFlush == 2       \* flush_every ranges over 1..MaxFlush
NumPairs == 3       \* (subject, city) pairs put on the async work queue
MaxWorkers == 2     \* async workers range over 1..MaxWorkers
NumPoolTasks == 5   \* tasks submitted to the pool, followed thread by thread
ApiThreads == 2     \* threads calling the API adapter
ApiKeys == 2        \* credentials of the API adapter
ApiCalls == 3       \* search() calls of a sequential run
MaxClock == 10      \* ticks the clock runs for in a sequential run
ShortClock == 3     \* ticks the clock runs for with several threads
MaxRetries == 3     \* max_retries ranges over 0..MaxRetries
MaxDocs == 3        \* documents the MongoDB collection holds at most
MaxWords == 3       \* words of a text classify_role is called with, at most
MaxLimit == 105     \* the largest limit scrape is called with
MaxNetworkItems == 2    \* JSON payload items one page's responses carry
MaxAccumulated == 2 \* the target of the role runs: listings the accumulator holds at most

Tasks == 1..NumTasks

NoFiles == [p \in Paths |-> <<>>]

(***************************************************************************)
(* main.py: bulk                                                           *)
(***************************************************************************)
max_experience_default == 5

BulkPool == << asha_google, asha_superprof, kiran, dev, tom >>

\* the results one scrape may return, enumerated once
BulkBatches == DOMAIN ([b \in BatchesOf(BulkPool, MaxBatch) |-> TRUE] @@ <<>>)

\* profile_key (name and source are strings in every listing the adapters
\* build)
profile_key(p) ==
    LET link == lower(strip(OrEmpty(p.profile_link)))
    IN  IF link # <<>> THEN link
        ELSE lower(strip(p.name)) \o <<"|">> \o lower(strip(p.source))

ProfileKeyTable == [x \in Dicts |-> profile_key(x)] @@ <<>>

\* passes_filters without the experience threshold
passes_filters_any_experience(p, o) ==
    /\ ~(o.exclude_students /\ role_lower(p) = "student")
    /\ ~(o.india_only /\ ~IndianTable[p])

\* `if years is None or years >= max_experience: continue`
experience_known_below(years, max_experience) ==
    ~(years = {} \/ \E y \in years : y >= max_experience)

\* the three post-filters of the consume loop
passes_filters(p, o) ==
    /\ ~(o.exclude_students /\ role_lower(p) = "student")
    /\ ~(o.india_only /\ ~IndianTable[p])
    /\ experience_known_below(YearsTable[p], o.max_experience)

\* accumulate without the seen_keys test
RECURSIVE accumulate_no_dedup(_, _, _, _)
RECURSIVE accumulate_item_no_dedup(_, _, _, _, _)
accumulate_item_no_dedup(results, k, acc, keys, o) ==
    IF ~passes_filters(results[1], o) \/ k = <<>>
    THEN accumulate_no_dedup(Tail(results), acc, keys, o)
    ELSE accumulate_no_dedup(Tail(results), Append(acc, results[1]), keys \cup {k}, o)

accumulate_no_dedup(results, acc, keys, o) ==
    IF results = <<>> THEN [ collected |-> acc, seen_keys |-> keys ]
    ELSE accumulate_item_no_dedup(results, ProfileKeyTable[results[1]], acc, keys, o)

\* for p in results: filter, dedup against seen_keys, append
RECURSIVE accumulate(_, _, _, _)
RECURSIVE accumulate_item(_, _, _, _, _)
\* the loop body for the first listing of results, whose key is k
accumulate_item(results, k, acc, keys, o) ==
    IF ~passes_filters(results[1], o) \/ k = <<>> \/ k \in keys
    THEN accumulate(Tail(results), acc, keys, o)
    ELSE accumulate(Tail(results), Append(acc, results[1]), keys \cup {k}, o)

accumulate(results, acc, keys, o) ==
    IF results = <<>> THEN [ collected |-> acc, seen_keys |-> keys ]
    ELSE accumulate_item(results, ProfileKeyTable[results[1]], acc, keys, o)

\* submit_task without its try/except: the future holds the exception
submit_task_uncaught(outcome) ==
    IF outcome = "raises" THEN "exception" ELSE "returned"

\* submit_task: what the future holds once the scrape returned or raised
submit_task(outcome) ==
    IF outcome = "raises" THEN "caught" ELSE "returned"

\* a shutdown that does not wait for the submitted tasks
shutdown_nowait(f) == TRUE

\* ThreadPoolExecutor.__exit__: shutdown(wait=True) returns once no
\* submitted task is left to run
shutdown_wait(f) == \A t \in DOMAIN f : f[t] # "pending"

\* a consume loop that never breaks
early_stop_never(total, target_count) == FALSE

\* a consume loop that breaks only once the target is exceeded
early_stop_above_target(total, target_count) == total > target_count

\* `if len(collected) >= target_count: break`
early_stop(total, target_count) == total >= target_count

\* history bookkeeping for one consumed batch
RECURSIVE note_passing(_, _, _)
RECURSIVE note_item(_, _, _, _)
note_item(results, k, fp, o) ==
    IF passes_filters(results[1], o) /\ k \notin DOMAIN fp
    THEN note_passing(Tail(results),
                      [x \in DOMAIN fp \cup {k} |-> IF x = k THEN results[1] ELSE fp[x]], o)
    ELSE note_passing(Tail(results), fp, o)

note_passing(results, fp, o) ==
    IF results = <<>> THEN fp
    ELSE note_item(results, ProfileKeyTable[results[1]], fp, o)

EmptyMap == [x \in {} |-> 0]

\* the variables of the other entry points while one of them runs
AsyncIdle ==
    /\ queue = <<>>
    /\ unfinished_tasks = 0
    /\ worker = <<>>
    /\ seen = {}

FetchIdle ==
    /\ all_results = <<>>
    /\ scrapers = <<>>
    /\ exit_code = {}

PoolIdle ==
    /\ api_sem = 0
    /\ html_sem = 0

ApiIdle ==
    /\ now = 0
    /\ _GLOBAL_SEM = 0
    /\ sems = <<>>
    /\ _GLOBAL_LAST_CALL = 0
    /\ current_key_index = 0
    /\ _key_backoff_until = <<>>
    /\ thread = <<>>
    /\ last_issue = {}
    /\ too_close = FALSE
    /\ calls_left = 0

PageIdle == page = <<>>

SinkIdle == mongo_docs = 0 /\ saved_ok = {}

RoleIdle == returned = <<>> /\ classified = {}

ScrapeIdle == scrape = <<>> /\ task = <<>>

AdapterIdle == PoolIdle /\ ApiIdle /\ PageIdle /\ SinkIdle /\ RoleIdle /\ ScrapeIdle

BulkIdle ==
    /\ seen_keys = {}
    /\ saved_total = 0
    /\ futures = <<>>
    /\ finished = <<>>
    /\ returned_keys = {}
    /\ late_survivor = FALSE
    /\ first_passing = EmptyMap

InitBulk ==
    /\ mode = "bulk"
    /\ AdapterIdle
    /\ opts \in [ target_count : 1..MaxTarget, flush_every : 1..MaxFlush,
                  max_experience : {max_experience_default},
                  india_only : BOOLEAN, exclude_students : BOOLEAN,
                  output : {"csv"}, output_path : {TutorsCsv} ]
    /\ PANDAS_AVAILABLE \in BOOLEAN
    /\ files = NoFiles
    /\ collected = <<>>
    /\ seen_keys = {}
    /\ saved_total = 0
    /\ futures = [t \in Tasks |-> "pending"]
    /\ finished = <<>>
    /\ pc = "loop"
    /\ flushed_now = FALSE
    /\ returned_keys = {}
    /\ late_survivor = FALSE
    /\ first_passing = EmptyMap
    /\ AsyncIdle
    /\ call = {}
    /\ FetchIdle
    /\ task_raised = FALSE

\* a flush test on round totals
flush_due_modulo(total, saved, flush_every) == total % flush_every = 0

\* `if len(collected) - saved_total >= flush_every`
flush_due(total, saved, flush_every) == total - saved >= flush_every

\* a pool thread that appends what it scraped to the accumulator itself
BulkWorkerAccumulates(t) ==
    /\ mode = "bulk"
    /\ pc \in {"loop", "final", "shutdown"}
    /\ futures[t] = "pending"
    /\ \A u \in Tasks : u < t => futures[u] # "pending"
    /\ futures' = [futures EXCEPT ![t] = submit_task("returns")]
    /\ finished' = IF pc = "loop" THEN Append(finished, t) ELSE finished
    /\ \E results \in BulkBatches : collected' = collected \o results
    /\ UNCHANGED << adapterVars, mode, opts, PANDAS_AVAILABLE, files, pc, seen_keys,
                    saved_total, flushed_now, returned_keys, late_survivor,
                    first_passing, asyncVars, call, fetchVars, task_raised >>

\* a pool thread runs submit_task for task t to its end.  The pool may run
\* the submitted tasks in any order; every task draws its results from the
\* same set, so the tasks are numbered in the order in which they complete.
BulkWorker(t) ==
    /\ mode = "bulk"
    /\ pc \in {"loop", "final", "shutdown"}
    /\ futures[t] = "pending"
    /\ \A u \in Tasks : u < t => futures[u] # "pending"
    /\ \E outcome \in {"returns", "raises"} :
          futures' = [futures EXCEPT ![t] = submit_task(outcome)]
    /\ finished' = IF pc = "loop" THEN Append(finished, t) ELSE finished
    /\ UNCHANGED << adapterVars, mode, opts, PANDAS_AVAILABLE, files, pc, collected, seen_keys,
                    saved_total, flushed_now, returned_keys, late_survivor,
                    first_passing, asyncVars, call, fetchVars, task_raised >>

\* one iteration of `for fut in as_completed(futures)`: fut.result(), the
\* filter/dedup loop, the periodic flush and the early-stop test
BulkConsume ==
    /\ mode = "bulk"
    /\ pc = "loop"
    /\ finished # <<>>
    /\ LET t == Head(finished)
       IN  IF futures[t] = "exception"
           THEN \* fut.result() re-raises: the command dies in the loop
                /\ pc' = "aborted"
                /\ futures' = [futures EXCEPT ![t] = "consumed"]
                /\ finished' = Tail(finished)
                /\ flushed_now' = FALSE
                /\ UNCHANGED << files, collected, seen_keys, saved_total,
                                returned_keys, late_survivor, first_passing >>
           ELSE \E results \in (IF futures[t] = "caught" THEN {<<>>} ELSE BulkBatches) :
                \E acc \in {accumulate(results, collected, seen_keys, opts)} :
                \E flush \in {flush_due(Len(acc.collected), saved_total, opts.flush_every)} :
                    /\ collected' = acc.collected
                    /\ seen_keys' = acc.seen_keys
                    /\ files' = IF flush
                                THEN save_data(files,
                                               SubSeq(acc.collected, saved_total + 1,
                                                      Len(acc.collected)),
                                               opts.output, opts.output_path, TRUE, TRUE,
                                               PANDAS_AVAILABLE, "unreachable").files
                                ELSE files
                    /\ saved_total' = IF flush THEN Len(acc.collected) ELSE saved_total
                    /\ flushed_now' = flush
                    /\ futures' = [futures EXCEPT ![t] = "consumed"]
                    /\ finished' = Tail(finished)
                    /\ returned_keys' = returned_keys \cup
                                            {ProfileKeyTable[results[i]] : i \in DOMAIN results}
                    /\ late_survivor' =
                          \/ late_survivor
                          \/ \E i \in DOMAIN acc.collected :
                                /\ i > Len(collected)
                                /\ ProfileKeyTable[acc.collected[i]] \in returned_keys
                    /\ first_passing' = note_passing(results, first_passing, opts)
                    /\ pc' = IF early_stop(Len(acc.collected), opts.target_count)
                                \/ \A u \in Tasks \ {t} : futures[u] = "consumed"
                             THEN "final" ELSE "loop"
    /\ task_raised' = (futures[Head(finished)] # "returned")
    /\ UNCHANGED << adapterVars, mode, opts, PANDAS_AVAILABLE, asyncVars, call, fetchVars >>

\* the final flush after the loop
BulkFinalFlush ==
    /\ mode = "bulk"
    /\ pc = "final"
    /\ files' = IF Len(collected) > saved_total
                THEN save_data(files, SubSeq(collected, saved_total + 1, Len(collected)),
                               opts.output, opts.output_path, TRUE, TRUE,
                               PANDAS_AVAILABLE, "unreachable").files
                ELSE files
    /\ pc' = "shutdown"
    /\ flushed_now' = FALSE
    /\ UNCHANGED << adapterVars, mode, opts, PANDAS_AVAILABLE, collected, bulkVars, asyncVars, call,
                    fetchVars, task_raised >>

\* leaving `with ThreadPoolExecutor(...)`: shutdown(wait=True) returns once
\* every submitted task has run
BulkShutdown ==
    /\ mode = "bulk"
    /\ pc = "shutdown"
    /\ shutdown_wait(futures)
    /\ pc' = "done"
    /\ UNCHANGED << adapterVars, mode, opts, PANDAS_AVAILABLE, files, collected, flushed_now,
                    bulkVars, asyncVars, call, fetchVars, task_raised >>

NextBulk ==
    \/ \E t \in Tasks : BulkWorker(t)
    \/ BulkConsume
    \/ BulkFinalFlush
    \/ BulkShutdown

SpecBulk == InitBulk /\ [][NextBulk]_vars

\* bulk called with --output mongo or both while the document store cannot
\* be reached
InitBulkStore ==
    /\ mode = "bulk"
    /\ AdapterIdle
    /\ opts \in [ target_count : 1..MaxTarget, flush_every : 1..MaxFlush,
                  max_experience : {max_experience_default},
                  india_only : BOOLEAN, exclude_students : BOOLEAN,
                  output : {"mongo", "both"}, output_path : {TutorsCsv} ]
    /\ PANDAS_AVAILABLE \in BOOLEAN
    /\ files = NoFiles
    /\ collected = <<>>
    /\ seen_keys = {}
    /\ saved_total = 0
    /\ futures = [t \in Tasks |-> "pending"]
    /\ finished = <<>>
    /\ pc = "loop"
    /\ flushed_now = FALSE
    /\ returned_keys = {}
    /\ late_survivor = FALSE
    /\ first_passing = EmptyMap
    /\ AsyncIdle
    /\ call = {}
    /\ FetchIdle
    /\ task_raised = FALSE

SpecBulkStore == InitBulkStore /\ [][NextBulk]_vars


(***************************************************************************)
(* scraper/async_playwright_scraper.py: run_async_scrape                   *)
(***************************************************************************)
AsyncPool == << asha_superprof, asha_urbanpro, kiran, ravi, nila >>

AsyncBatches == DOMAIN ([b \in BatchesOf(AsyncPool, MaxBatch) |-> TRUE] @@ <<>>)

Workers == 1..MaxWorkers

\* what key_fn gives when `.strip()` is called on a value that is not a
\* string: the AttributeError it raises
key_raises == <<"<AttributeError>">>

\* key_fn of run_async_scrape (name and source are strings in every
\* listing; the link is whatever the payload held)
async_key_fn(p) ==
    IF p.profile_link = NotText THEN key_raises
    ELSE LET link == lower(strip(OrEmpty(p.profile_link)))
         IN  IF link # <<>> THEN link
             ELSE lower(strip(p.name)) \o <<"|">> \o lower(strip(p.source))

AsyncKeyTable == [x \in Dicts |-> async_key_fn(x)] @@ <<>>

\* new_items.append(p), for the items that follow p
prepend_new(p, rest) ==
    [ new_items |-> <<p>> \o rest.new_items, seen |-> rest.seen, raised |-> rest.raised ]

\* the dedup loop of worker_fn: the items of batch whose key is new
RECURSIVE new_items_of(_, _)
RECURSIVE new_item(_, _, _)
\* the loop body for the first item of batch, whose key is k
new_item(batch, k, keys) ==
    IF k = key_raises THEN [ new_items |-> <<>>, seen |-> keys, raised |-> TRUE ]
    ELSE IF k # <<>> /\ k \notin keys
    THEN prepend_new(batch[1], new_items_of(Tail(batch), keys \cup {k}))
    ELSE new_items_of(Tail(batch), keys)

new_items_of(batch, keys) ==
    IF batch = <<>> THEN [ new_items |-> <<>>, seen |-> keys, raised |-> FALSE ]
    ELSE new_item(batch, AsyncKeyTable[batch[1]], keys)

\* what reaches `collected.extend(new_items)`: the new items of the batch,
\* or nothing when key_fn raised inside the loop and the handler took over
\* (the keys added before the raise stay in the seen-set)
extended(d) == [ new_items |-> IF d.raised THEN <<>> ELSE d.new_items, seen |-> d.seen ]

\* the periodic flush test of worker_fn
async_flush_due(total, added, flush_every) == total % flush_every < added

\* what the periodic flush of worker_fn hands to save_data
async_flush_data(all_collected, new_items) == new_items

\* a loop test that looks at the queue only
pulls_next_ignoring_target(q, total, target) == q # <<>>

\* `while not queue.empty() and len(collected) < target`
pulls_next(q, total, target) == q # <<>> /\ total < target

InitAsync ==
    /\ mode = "async"
    /\ AdapterIdle
    /\ opts \in [ target : 1..MaxTarget, flush_every : 1..MaxFlush,
                  workers : Workers, output_path : {TutorsAsyncCsv} ]
    /\ PANDAS_AVAILABLE \in BOOLEAN
    /\ files = NoFiles
    /\ collected = <<>>
    /\ flushed_now = FALSE
    /\ seen = {}
    /\ queue = [i \in 1..NumPairs |-> i]
    /\ unfinished_tasks = NumPairs
    /\ worker = [w \in 1..opts.workers |-> [at |-> "created", item |-> 0]]
    /\ pc = "create_tasks"
    /\ BulkIdle
    /\ call = {}
    /\ FetchIdle
    /\ task_raised = FALSE

\* the coroutine reaches `await queue.join()` and suspends; the event loop
\* then runs every created worker, in creation order, up to its first
\* suspension inside scrape_task.  Nothing is collected yet, so a worker
\* pulls an item if one is left and returns at once otherwise.
AsyncStart ==
    /\ mode = "async"
    /\ pc = "create_tasks"
    /\ pc' = "join"
    /\ worker' = [w \in DOMAIN worker |->
                     IF pulls_next(SubSeq(queue, w, Len(queue)), Len(collected), opts.target)
                     THEN [at |-> "scraping", item |-> queue[w]]
                     ELSE [at |-> "returned", item |-> 0]]
    /\ queue' = IF pulls_next(queue, Len(collected), opts.target)
                THEN SubSeq(queue, Len(worker) + 1, Len(queue))
                ELSE queue
    /\ UNCHANGED << adapterVars, mode, opts, PANDAS_AVAILABLE, files, collected, flushed_now,
                    unfinished_tasks, seen, bulkVars, call, fetchVars >>
    /\ task_raised' = FALSE

\* worker w resumes when its scrape_task ends (returning a batch or
\* raising), runs the rest of the loop body, task_done() included, and goes
\* round the loop to its next suspension or to its end
AsyncWorker(w) ==
    /\ mode = "async"
    /\ pc = "join"
    /\ w \in DOMAIN worker
    /\ worker[w].at = "scraping"
    /\ \E outcome \in {"returns", "raises"} :
       \E batch \in (IF outcome = "raises" THEN {<<>>} ELSE AsyncBatches) :
         \E d \in {extended(new_items_of(batch, seen))} :
         \E total \in {Len(collected) + Len(d.new_items)} :
         \E flush \in {d.new_items # <<>>
                         /\ async_flush_due(total, Len(d.new_items), opts.flush_every)} :
         \E pull \in {pulls_next(queue, total, opts.target)} :
             /\ seen' = d.seen
             /\ collected' = collected \o d.new_items
             /\ files' = IF flush
                         THEN save_data(files,
                                        async_flush_data(collected \o d.new_items, d.new_items),
                                        "csv", opts.output_path, TRUE, TRUE,
                                        PANDAS_AVAILABLE, "unreachable").files
                         ELSE files
             /\ flushed_now' = flush
             /\ unfinished_tasks' = unfinished_tasks - 1
             /\ worker' = [worker EXCEPT ![w] =
                              IF pull THEN [at |-> "scraping", item |-> Head(queue)]
                              ELSE [at |-> "returned", item |-> 0]]
             /\ queue' = IF pull THEN Tail(queue) ELSE queue
             /\ task_raised' = (outcome = "raises")
    /\ UNCHANGED << adapterVars, mode, opts, PANDAS_AVAILABLE, pc, bulkVars, call, fetchVars >>

\* a join that does not wait for the items to be marked done
join_returns_at_once(unfinished) == TRUE

\* asyncio.Queue.join: `if self._unfinished_tasks > 0: await self._finished.wait()`
join_returns(unfinished) == unfinished = 0

\* queue.join() returns once every item put was marked done; the rest of
\* run_async_scrape runs without suspending: cancel the workers, final
\* flush, return len(collected)
AsyncJoined ==
    /\ mode = "async"
    /\ pc = "join"
    /\ join_returns(unfinished_tasks)
    /\ worker' = [w \in DOMAIN worker |->
                     IF worker[w].at = "returned" THEN worker[w]
                     ELSE [at |-> "cancelled", item |-> worker[w].item]]
    /\ files' = IF collected # <<>>
                THEN save_data(files, collected, "csv", opts.output_path, TRUE, TRUE,
                               PANDAS_AVAILABLE, "unreachable").files
                ELSE files
    /\ pc' = "returned"
    /\ flushed_now' = FALSE
    /\ UNCHANGED << adapterVars, mode, opts, PANDAS_AVAILABLE, collected, queue, unfinished_tasks,
                    seen, bulkVars, call, fetchVars >>
    /\ task_raised' = FALSE

NextAsync ==
    \/ AsyncStart
    \/ \E w \in Workers : AsyncWorker(w)
    \/ AsyncJoined

SpecAsync == InitAsync /\ [][NextAsync]_vars

\* the event loop resumes every coroutine that is ready to run
FairSpecAsync ==
    /\ SpecAsync
    /\ WF_vars(AsyncStart)
    /\ \A w \in Workers : WF_vars(AsyncWorker(w))
    /\ WF_vars(AsyncJoined)


(***************************************************************************)
(* utils/storage.py: successive save_data calls on one file system         *)
(***************************************************************************)
\* the batches handed to save_data: link-less tutors with equal and with
\* different keys, an unclassified listing, a student, alone and mixed,
\* and one profile under two spellings of its link
SaveBatches ==
    { << ravi >>, << mina >>, << ravi, mina >>, << ravi, ravi_again >>,
      << mina, ravi_again >>, << kiran >>, << ravi, kiran >>, << dev >>,
      << dev, ravi >>, << asha_superprof >>, << asha_google >> }

SaveArgs ==
    [ data : SaveBatches, output_format : {"csv"},
      output_path : {None, TutorsCsv},
      separate_by_role : BOOLEAN, append_mode : BOOLEAN,
      mongo : {"unreachable"} ]

\* calls that choose the sinks, with the document store in every condition
SinkArgs ==
    [ data : { << ravi >>, << ravi, kiran >>, << dev >> },
      output_format : {"csv", "mongo", "both", "json"},
      output_path : {None},
      separate_by_role : BOOLEAN, append_mode : {TRUE},
      mongo : MongoConditions ]

\* calls that split by role, under paths with and without 'tutors' in them;
\* every listing carries a profile link
SplitArgs ==
    [ data : { << tom >>, << dev >>, << tom, dev >> },
      output_format : {"csv"},
      output_path : {None, TutorsCsv, OutCsv},
      separate_by_role : {TRUE}, append_mode : BOOLEAN,
      mongo : {"unreachable"} ]

save_args(m) ==
    CASE m = "sinks" -> SinkArgs
      [] m = "split" -> SplitArgs
      [] OTHER -> SaveArgs

InitSave ==
    /\ mode = "save"
    /\ AdapterIdle
    /\ opts = <<>>
    /\ PANDAS_AVAILABLE \in BOOLEAN
    /\ files = NoFiles
    /\ call = {}
    /\ pc = "idle"
    /\ collected = <<>>
    /\ flushed_now = FALSE
    /\ BulkIdle
    /\ AsyncIdle
    /\ FetchIdle
    /\ task_raised = FALSE

SaveData ==
    /\ mode \in {"save", "sinks", "split"}
    /\ \E a \in save_args(mode) :
         \E saved \in {save_data(files, a.data, a.output_format, a.output_path,
                                  a.separate_by_role, a.append_mode,
                                  PANDAS_AVAILABLE, a.mongo)} :
            /\ mongo_docs + saved.inserted <= MaxDocs
            /\ files' = saved.files
            /\ mongo_docs' = mongo_docs + saved.inserted
            /\ saved_ok' = {saved.ok}
            /\ call' = {a}
    /\ UNCHANGED << poolVars, apiVars, pageVars, roleVars, scrapeVars, mode, opts, PANDAS_AVAILABLE, pc, collected, flushed_now,
                    bulkVars, asyncVars, fetchVars, task_raised >>

NextSave == SaveData

InitSinks ==
    /\ mode = "sinks"
    /\ PoolIdle
    /\ ApiIdle
    /\ PageIdle
    /\ mongo_docs = 0
    /\ saved_ok = {}
    /\ RoleIdle
    /\ ScrapeIdle
    /\ opts = <<>>
    /\ PANDAS_AVAILABLE \in BOOLEAN
    /\ files = NoFiles
    /\ call = {}
    /\ pc = "idle"
    /\ collected = <<>>
    /\ flushed_now = FALSE
    /\ BulkIdle
    /\ AsyncIdle
    /\ FetchIdle
    /\ task_raised = FALSE

SpecSinks == InitSinks /\ [][NextSave]_vars

SpecSave == InitSave /\ [][NextSave]_vars

InitSplit ==
    /\ mode = "split"
    /\ PoolIdle
    /\ ApiIdle
    /\ PageIdle
    /\ mongo_docs = 0
    /\ saved_ok = {}
    /\ RoleIdle
    /\ ScrapeIdle
    /\ opts = <<>>
    /\ PANDAS_AVAILABLE \in BOOLEAN
    /\ files = NoFiles
    /\ call = {}
    /\ pc = "idle"
    /\ collected = <<>>
    /\ flushed_now = FALSE
    /\ BulkIdle
    /\ AsyncIdle
    /\ FetchIdle
    /\ task_raised = FALSE

SpecSplit == InitSplit /\ [][NextSave]_vars


(***************************************************************************)
(* main.py: fetch                                                          *)
(***************************************************************************)
max_save_default == 100

\* what one source's scrape(query, limit) may return
FetchBatches == { <<>>, << asha_superprof >>, << dev, uma >>, << tom >>, << veda >> }

\* the scrapers list built from --source: one adapter, or the four of "all"
scrapers_of(source) == IF source = "all" THEN << 1, 2, 3, 4 >> ELSE << 1 >>

\* the try/except around scraper.scrape in the loop over the sources
fetch_scrape(outcome) == IF outcome = "raises" THEN "caught" ELSE "returned"

filter_tutors_by_experience(data, max_years) ==
    SelectSeq(data, LAMBDA profile :
                       /\ profile.role = "Tutor"
                       /\ \E y \in YearsTable[profile] : y < max_years)

\* `if exclude_students:` drop the students
without_students(results, exclude_students) ==
    IF exclude_students
    THEN SelectSeq(results, LAMBDA profile : profile.role # "Student")
    ELSE results

\* an experience filter that, as in bulk, looks at no role
experience_filter_every_role(results, max_experience) ==
    IF max_experience # {}
    THEN SelectSeq(results, LAMBDA profile :
                      \E y \in YearsTable[profile] : \A m \in max_experience : y < m)
    ELSE results

\* `if max_experience:` the tutors below the threshold, then the non-tutors
experience_filter(results, max_experience) ==
    IF max_experience # {}
    THEN filter_tutors_by_experience(results, CHOOSE n \in max_experience : TRUE)
           \o SelectSeq(results, LAMBDA profile : profile.role # "Tutor")
    ELSE results

\* `if india_only:` keep the Indian profiles
indian_only(results, india_only) ==
    IF india_only THEN SelectSeq(results, LAMBDA p : IndianTable[p]) ELSE results

\* `if max_save and len(all_results) > max_save:` keep the first max_save
capped(results, max_save) ==
    IF Len(results) > max_save THEN SubSeq(results, 1, max_save) ELSE results

\* the filters and the cap fetch applies to all_results
fetch_filters(results, o) ==
    capped(indian_only(experience_filter(without_students(results, o.exclude_students),
                                         o.max_experience),
                       o.india_only),
           o.max_save)

\* a fetch run never fails
exit_status_zero(success) == 0

\* `if success: ... else: raise typer.Exit(1)` after the save step
exit_status(success) == IF success THEN 0 ELSE 1

InitFetch ==
    /\ mode = "fetch"
    /\ AdapterIdle
    /\ opts \in [ source : {"urbanpro", "all"}, output : {"csv", "mongo", "both"},
                  output_path : {None},
                  max_experience : { {}, {max_experience_default} },
                  exclude_students : BOOLEAN, india_only : BOOLEAN,
                  max_save : {1, max_save_default}, append : BOOLEAN ]
    /\ PANDAS_AVAILABLE \in BOOLEAN
    /\ files = NoFiles
    /\ all_results = <<>>
    /\ scrapers = scrapers_of(opts.source)
    /\ exit_code = {}
    /\ pc = "scrape_loop"
    /\ task_raised = FALSE
    /\ collected = <<>>
    /\ flushed_now = FALSE
    /\ call = {}
    /\ BulkIdle
    /\ AsyncIdle

\* one iteration of `for source_name, scraper in scrapers`
FetchScrape ==
    /\ mode = "fetch"
    /\ pc = "scrape_loop"
    /\ scrapers # <<>>
    /\ \E outcome \in {"returns", "raises"} :
         LET status == fetch_scrape(outcome)
         IN  /\ task_raised' = (outcome = "raises")
             /\ IF status = "exception"
                THEN /\ pc' = "aborted"
                     /\ UNCHANGED << all_results, scrapers >>
                ELSE /\ \E results \in (IF status = "caught" THEN {<<>>} ELSE FetchBatches) :
                          all_results' = all_results \o results
                     /\ scrapers' = Tail(scrapers)
                     /\ pc' = pc
    /\ UNCHANGED << adapterVars, mode, opts, PANDAS_AVAILABLE, files, collected, flushed_now,
                    bulkVars, asyncVars, call, exit_code >>

\* after the loop: the summary, the filters, the cap, save_data, the exit code
FetchFinish ==
    /\ mode = "fetch"
    /\ pc = "scrape_loop"
    /\ scrapers = <<>>
    /\ \E kept \in {fetch_filters(all_results, opts)} :
          IF all_results = <<>>
          THEN /\ exit_code' = {0}
               /\ UNCHANGED << files, all_results, sinkVars >>
          ELSE /\ all_results' = kept
               /\ IF kept = <<>>
                  THEN /\ exit_code' = {0}
                       /\ files' = files
                       /\ UNCHANGED sinkVars
                  ELSE \E mongo \in (IF opts.output = "csv" THEN {"unreachable"}
                                               ELSE MongoConditions) :
                       \E saved \in {save_data(files, kept, opts.output,
                                                tutor_path_of(opts.output_path), TRUE,
                                                opts.append, PANDAS_AVAILABLE, mongo)} :
                          /\ files' = saved.files
                          /\ mongo_docs' = mongo_docs + saved.inserted
                          /\ saved_ok' = {saved.ok}
                          /\ exit_code' = {exit_status(saved.ok)}
    /\ pc' = "exited"
    /\ task_raised' = FALSE
    /\ UNCHANGED << poolVars, apiVars, pageVars, roleVars, scrapeVars, mode, opts, PANDAS_AVAILABLE,
                    collected, flushed_now, scrapers, bulkVars, asyncVars, call >>

NextFetch ==
    \/ FetchScrape
    \/ FetchFinish

SpecFetch == InitFetch /\ [][NextFetch]_vars

(***************************************************************************)
(* Any one of the three collection runs                                    *)
(***************************************************************************)
InitRun == InitFetch \/ InitBulk \/ InitAsync

NextRun ==
    \/ NextFetch
    \/ NextBulk
    \/ NextAsync

SpecRun == InitRun /\ [][NextRun]_vars


(***************************************************************************)
(* main.py: bulk, the worker threads of the pool and their semaphores      *)
(***************************************************************************)
api_max_default == 2
html_max_default == 4

PoolTasks == 1..NumPoolTasks

\* max(1, int(os.getenv(...)))
at_least_one(n) == IF n < 1 THEN 1 ELSE n

\* the task list: per (subject, city) pair one task per scraper, the first
\* scraper being the API adapter when it is configured; only it with only_api
scrapers_per_pair(o) == IF o.only_api THEN 1 ELSE 4

is_api(t, o) == o.api_configured /\ (t - 1) % scrapers_per_pair(o) = 0

\* `with sem:` can be entered when a permit is left
sem_acquire_unguarded(permits) == TRUE

sem_acquire(permits) == permits > 0

\* a block that gives its permit back only when the scrape returned
with_exit_on_return(permits, outcome) ==
    IF outcome = "raises" THEN permits ELSE permits + 1

\* leaving `with sem:`, by a return or by an exception: the permit goes back
with_exit(permits, outcome) == permits + 1

\* the tasks a pool thread is running submit_task for
in_thread(f) == { t \in DOMAIN f : f[t] \in {"entered", "scraping"} }

scraping_api(f, o) == { t \in DOMAIN f : f[t] = "scraping" /\ is_api(t, o) }

scraping_html(f, o) == { t \in DOMAIN f : f[t] = "scraping" /\ ~is_api(t, o) }

InitPool ==
    /\ mode = "pool"
    /\ opts \in [ max_workers : 1..NumPoolTasks,
                  api_configured : BOOLEAN, only_api : BOOLEAN,
                  BULK_MAX_CONCURRENT_API : {0, api_max_default},
                  BULK_MAX_CONCURRENT_HTML : {0, html_max_default} ]
    /\ api_sem = at_least_one(opts.BULK_MAX_CONCURRENT_API)
    /\ html_sem = at_least_one(opts.BULK_MAX_CONCURRENT_HTML)
    /\ futures = [t \in PoolTasks |-> "pending"]
    /\ ApiIdle
    /\ PageIdle
    /\ SinkIdle
    /\ ScrapeIdle
    /\ RoleIdle
    /\ PANDAS_AVAILABLE = FALSE
    /\ files = NoFiles
    /\ pc = "loop"
    /\ collected = <<>>
    /\ flushed_now = FALSE
    /\ call = {}
    /\ task_raised = FALSE
    /\ seen_keys = {}
    /\ saved_total = 0
    /\ finished = <<>>
    /\ returned_keys = {}
    /\ late_survivor = FALSE
    /\ first_passing = EmptyMap
    /\ AsyncIdle
    /\ FetchIdle

\* a free pool thread takes the oldest queued task and enters submit_task
PoolThreadTakes(t) ==
    /\ mode = "pool"
    /\ futures[t] = "pending"
    /\ \A u \in PoolTasks : u < t => futures[u] # "pending"
    /\ Cardinality(in_thread(futures)) < opts.max_workers
    /\ futures' = [futures EXCEPT ![t] = "entered"]
    /\ UNCHANGED << adapterVars, mode, opts, PANDAS_AVAILABLE, files, pc, collected,
                    flushed_now, seen_keys, saved_total, finished, returned_keys,
                    late_survivor, first_passing, asyncVars, call, fetchVars,
                    task_raised >>

\* `with sem:` takes a permit of the task's semaphore, or blocks
PoolSemEnter(t) ==
    /\ mode = "pool"
    /\ futures[t] = "entered"
    /\ IF is_api(t, opts)
       THEN /\ sem_acquire(api_sem)
            /\ api_sem' = api_sem - 1
            /\ html_sem' = html_sem
       ELSE /\ sem_acquire(html_sem)
            /\ html_sem' = html_sem - 1
            /\ api_sem' = api_sem
    /\ futures' = [futures EXCEPT ![t] = "scraping"]
    /\ UNCHANGED << sinkVars, roleVars, scrapeVars, apiVars, pageVars, mode, opts, PANDAS_AVAILABLE, files, pc, collected,
                    flushed_now, seen_keys, saved_total, finished, returned_keys,
                    late_survivor, first_passing, asyncVars, call, fetchVars,
                    task_raised >>

\* scraper.scrape returns or raises: the `with` block gives the permit
\* back either way, and submit_task returns to the pool
PoolScrapeEnds(t) ==
    /\ mode = "pool"
    /\ futures[t] = "scraping"
    /\ \E outcome \in {"returns", "raises"} :
          /\ futures' = [futures EXCEPT ![t] = submit_task(outcome)]
          /\ task_raised' = (outcome = "raises")
          /\ IF is_api(t, opts)
             THEN /\ api_sem' = with_exit(api_sem, outcome)
                  /\ html_sem' = html_sem
             ELSE /\ html_sem' = with_exit(html_sem, outcome)
                  /\ api_sem' = api_sem
    /\ UNCHANGED << sinkVars, roleVars, scrapeVars, apiVars, pageVars, mode, opts, PANDAS_AVAILABLE, files, pc, collected,
                    flushed_now, seen_keys, saved_total, finished, returned_keys,
                    late_survivor, first_passing, asyncVars, call, fetchVars >>

NextPool ==
    \/ \E t \in PoolTasks : PoolThreadTakes(t)
    \/ \E t \in PoolTasks : PoolSemEnter(t)
    \/ \E t \in PoolTasks : PoolScrapeEnds(t)

SpecPool == InitPool /\ [][NextPool]_vars

\* a bulk run seen from both sides: the pool's threads and semaphores under
\* every pool size and concurrency bound, or the orchestrator with the tasks
\* as futures (csv module writer, --india-only and --exclude-students off:
\* none takes part in the control flow of the loop).  While some thread can take a step one of
\* them does: the scheduler runs the threads and every scrape call ends.
InitBulkRun ==
    \/ InitPool
    \/ InitBulk /\ ~PANDAS_AVAILABLE /\ ~opts.india_only /\ ~opts.exclude_students

NextBulkRun == NextPool \/ NextBulk

FairSpecBulkRun ==
    /\ InitBulkRun /\ [][NextBulkRun]_vars
    /\ WF_vars(NextBulkRun)


(***************************************************************************)
(* scraper/google_api_scraper.py: GoogleAPISearcher.search, thread by      *)
(* thread.  Time is counted in ticks of 250 ms; a sleeping thread wakes at *)
(* its deadline or later.                                                  *)
(***************************************************************************)
min_interval_default == 1      \* GOOGLE_API_MIN_INTERVAL_SEC, 0.25 s
max_conc_default == 2          \* GOOGLE_API_MAX_CONCURRENT
min_key_sleep == 2             \* max(0.5, ...) seconds
backoff_unit == 4              \* one second
backoff_cap == 240             \* min(60, ...) seconds

\* time.time() when the run starts: long after _GLOBAL_LAST_CALL = 0.0
Epoch == 100

NoSem == 0

ApiThreadIds == 1..ApiThreads

Keys(o) == 0..(o.keys - 1)

Max2(a, b) == IF a >= b THEN a ELSE b
Min2(a, b) == IF a <= b THEN a ELSE b

MinOf(S) == CHOOSE m \in S : \A n \in S : m <= n

\* a rotation that looks at the key under the index only
ready_offsets_first_only(start, until, n, t) ==
    { k \in {0} : t >= until[start] }

\* the keys whose backoff is over, as offsets from the current index
ready_offsets(start, until, n, t) ==
    { k \in 0..(n - 1) : t >= until[(start + k) % n] }

\* a rotation that returns the first ready key and leaves the index on it
rotate_to_without_advance(start, offsets, n) ==
    [ returned |-> {(start + MinOf(offsets)) % n},
      current_key_index |-> (start + MinOf(offsets)) % n,
      sleep_for |-> 0 ]

\* the loop left at the first key that is not backed off
rotate_to(start, offsets, n) ==
    [ returned |-> {(start + MinOf(offsets)) % n},
      current_key_index |-> (start + MinOf(offsets) + 1) % n,
      sleep_for |-> 0 ]

\* the loop ran over all keys: the index is back where it started, and
\* the caller sleeps until the earliest deadline, half a second at least
all_backed_off(start, until, n, t) ==
    [ returned |-> {},
      current_key_index |-> start,
      sleep_for |-> Max2(min_key_sleep, MinOf({until[k] : k \in 0..(n - 1)}) - t) ]

\* get_next_api_key up to its return or its time.sleep
get_next_api_key(start, until, n, t) ==
    IF ready_offsets(start, until, n, t) = {}
    THEN all_backed_off(start, until, n, t)
    ELSE rotate_to(start, ready_offsets(start, until, n, t), n)

\* the pick after the sleep: whatever key the index points at
key_after_sleep(index) == index

retryable == {429, 500, 502, 503}

\* what requests.get may do: answer with a status, or raise
Replies ==
    { [raises |-> FALSE, status |-> s] : s \in {200, 403, 429, 503} }
        \cup { [raises |-> TRUE, status |-> 0] }

\* base = 2 ** (int(prev_until > time.time()) + 1), in seconds
backoff_base(prev_until, t) == IF prev_until > t THEN 4 ELSE 2

\* backoff = min(60, base + random.uniform(0, 1.0)), in ticks
backoff_ticks(prev_until, t, jitter) ==
    Min2(backoff_cap, backoff_base(prev_until, t) * backoff_unit + jitter)

\* the pacing wait inside the semaphore: 0 when the last call is old enough
pace_wait(t, last_call, interval) ==
    IF t - last_call < interval THEN interval - (t - last_call) ELSE 0

ApiThread == [ pc |-> "idle", key_idx |-> 0, wake_at |-> 0, sem |-> NoSem ]

in_flight(th) == { x \in DOMAIN th : th[x].pc = "in_flight" }

InitApi ==
    /\ mode = "api"
    /\ opts \in [ threads : {1}, keys : 1..ApiKeys, calls : {ApiCalls},
                  GOOGLE_API_MAX_CONCURRENT : {max_conc_default},
                  horizon : {MaxClock} ]
              \cup [ threads : 2..ApiThreads, keys : {1}, calls : {ApiCalls},
                     GOOGLE_API_MAX_CONCURRENT : {0, max_conc_default},
                     horizon : {ShortClock} ]
    /\ now = Epoch
    /\ _GLOBAL_SEM = NoSem
    /\ sems = <<>>
    /\ _GLOBAL_LAST_CALL = 0
    /\ current_key_index = 0
    /\ _key_backoff_until = [k \in Keys(opts) |-> 0]
    /\ thread = [x \in 1..opts.threads |-> ApiThread]
    /\ calls_left = opts.calls
    /\ last_issue = {}
    /\ too_close = FALSE
    /\ PoolIdle
    /\ PageIdle
    /\ SinkIdle
    /\ ScrapeIdle
    /\ RoleIdle
    /\ PANDAS_AVAILABLE = FALSE
    /\ files = NoFiles
    /\ pc = "threads"
    /\ collected = <<>>
    /\ flushed_now = FALSE
    /\ call = {}
    /\ task_raised = FALSE
    /\ BulkIdle
    /\ AsyncIdle
    /\ FetchIdle

\* time passes
ApiTick ==
    /\ mode = "api"
    /\ now < Epoch + opts.horizon
    /\ now' = now + 1
    /\ UNCHANGED << calls_left, _GLOBAL_SEM, sems, _GLOBAL_LAST_CALL, current_key_index,
                    _key_backoff_until, thread, last_issue, too_close >>
    /\ UNCHANGED << sinkVars, roleVars, scrapeVars, poolVars, pageVars, mode, opts, PANDAS_AVAILABLE, files, pc, collected,
                    flushed_now, bulkVars, asyncVars, call, fetchVars, task_raised >>

\* search() is called: get_next_api_key runs its rotation and returns a
\* key, or finds every key backed off and goes to sleep
ApiGetKey(x) ==
    /\ mode = "api"
    /\ x \in DOMAIN thread
    /\ thread[x].pc = "idle"
    /\ calls_left > 0
    /\ calls_left' = calls_left - 1
    /\ \E got \in {get_next_api_key(current_key_index, _key_backoff_until,
                                    opts.keys, now)} :
          /\ current_key_index' = got.current_key_index
          /\ thread' = [thread EXCEPT ![x] =
                IF got.returned = {}
                THEN [@ EXCEPT !.pc = "key_sleep", !.wake_at = now + got.sleep_for]
                ELSE [@ EXCEPT !.pc = "have_key",
                               !.key_idx = CHOOSE k \in got.returned : TRUE]]
    /\ UNCHANGED << now, _GLOBAL_SEM, sems, _GLOBAL_LAST_CALL,
                    _key_backoff_until, last_issue, too_close >>
    /\ UNCHANGED << sinkVars, roleVars, scrapeVars, poolVars, pageVars, mode, opts, PANDAS_AVAILABLE, files, pc, collected,
                    flushed_now, bulkVars, asyncVars, call, fetchVars, task_raised >>

\* time.sleep(sleep_for) is over: the key at current_key_index is returned
ApiKeyWake(x) ==
    /\ mode = "api"
    /\ x \in DOMAIN thread
    /\ thread[x].pc = "key_sleep"
    /\ now >= thread[x].wake_at
    /\ thread' = [thread EXCEPT ![x] =
          [@ EXCEPT !.pc = "have_key", !.wake_at = 0,
                    !.key_idx = key_after_sleep(current_key_index)]]
    /\ UNCHANGED << calls_left, now, _GLOBAL_SEM, sems, _GLOBAL_LAST_CALL, current_key_index,
                    _key_backoff_until, last_issue, too_close >>
    /\ UNCHANGED << sinkVars, roleVars, scrapeVars, poolVars, pageVars, mode, opts, PANDAS_AVAILABLE, files, pc, collected,
                    flushed_now, bulkVars, asyncVars, call, fetchVars, task_raised >>

\* `if GoogleAPISearcher._GLOBAL_SEM is None:`
ApiSemCheck(x) ==
    /\ mode = "api"
    /\ x \in DOMAIN thread
    /\ thread[x].pc = "have_key"
    /\ thread' = [thread EXCEPT ![x].pc =
          IF _GLOBAL_SEM = NoSem THEN "sem_create" ELSE "sem_enter"]
    /\ UNCHANGED << calls_left, now, _GLOBAL_SEM, sems, _GLOBAL_LAST_CALL, current_key_index,
                    _key_backoff_until, last_issue, too_close >>
    /\ UNCHANGED << sinkVars, roleVars, scrapeVars, poolVars, pageVars, mode, opts, PANDAS_AVAILABLE, files, pc, collected,
                    flushed_now, bulkVars, asyncVars, call, fetchVars, task_raised >>

\* `_GLOBAL_SEM = threading.Semaphore(max(1, max_conc))`: a new semaphore
ApiSemCreate(x) ==
    /\ mode = "api"
    /\ x \in DOMAIN thread
    /\ thread[x].pc = "sem_create"
    /\ sems' = Append(sems, at_least_one(opts.GOOGLE_API_MAX_CONCURRENT))
    /\ _GLOBAL_SEM' = Len(sems) + 1
    /\ thread' = [thread EXCEPT ![x].pc = "sem_enter"]
    /\ UNCHANGED << calls_left, now, _GLOBAL_LAST_CALL, current_key_index,
                    _key_backoff_until, last_issue, too_close >>
    /\ UNCHANGED << sinkVars, roleVars, scrapeVars, poolVars, pageVars, mode, opts, PANDAS_AVAILABLE, files, pc, collected,
                    flushed_now, bulkVars, asyncVars, call, fetchVars, task_raised >>

\* `with GoogleAPISearcher._GLOBAL_SEM:` takes a permit of the semaphore
\* the class attribute holds now, or blocks
ApiSemEnter(x) ==
    /\ mode = "api"
    /\ x \in DOMAIN thread
    /\ thread[x].pc = "sem_enter"
    /\ sem_acquire(sems[_GLOBAL_SEM])
    /\ sems' = [sems EXCEPT ![_GLOBAL_SEM] = @ - 1]
    /\ thread' = [thread EXCEPT ![x] = [@ EXCEPT !.pc = "pace", !.sem = _GLOBAL_SEM]]
    /\ UNCHANGED << calls_left, now, _GLOBAL_SEM, _GLOBAL_LAST_CALL, current_key_index,
                    _key_backoff_until, last_issue, too_close >>
    /\ UNCHANGED << sinkVars, roleVars, scrapeVars, poolVars, pageVars, mode, opts, PANDAS_AVAILABLE, files, pc, collected,
                    flushed_now, bulkVars, asyncVars, call, fetchVars, task_raised >>

\* the pacing test.  The last call is old enough: _GLOBAL_LAST_CALL is set
\* and requests.get sends the request (no blocking call in between).
\* Otherwise the thread sleeps, holding its permit.
ApiPace(x) ==
    /\ mode = "api"
    /\ x \in DOMAIN thread
    /\ thread[x].pc = "pace"
    /\ IF pace_wait(now, _GLOBAL_LAST_CALL, min_interval_default) = 0
       THEN /\ _GLOBAL_LAST_CALL' = now
            /\ too_close' =
                  (too_close \/ \E t \in last_issue : now - t < min_interval_default)
            /\ last_issue' = {now}
            /\ thread' = [thread EXCEPT ![x].pc = "in_flight"]
       ELSE /\ thread' = [thread EXCEPT ![x] =
                  [@ EXCEPT !.pc = "pace_sleep",
                            !.wake_at = now + pace_wait(now, _GLOBAL_LAST_CALL,
                                                        min_interval_default)]]
            /\ UNCHANGED << _GLOBAL_LAST_CALL, too_close, last_issue >>
    /\ UNCHANGED << calls_left, now, _GLOBAL_SEM, sems, current_key_index,
                    _key_backoff_until >>
    /\ UNCHANGED << sinkVars, roleVars, scrapeVars, poolVars, pageVars, mode, opts, PANDAS_AVAILABLE, files, pc, collected,
                    flushed_now, bulkVars, asyncVars, call, fetchVars, task_raised >>

\* the sleep is over: `_GLOBAL_LAST_CALL = time.time()` and requests.get
\* sends the request
ApiIssue(x) ==
    /\ mode = "api"
    /\ x \in DOMAIN thread
    /\ thread[x].pc = "pace_sleep"
    /\ now >= thread[x].wake_at
    /\ _GLOBAL_LAST_CALL' = now
    /\ too_close' = (too_close \/ \E t \in last_issue : now - t < min_interval_default)
    /\ last_issue' = {now}
    /\ thread' = [thread EXCEPT ![x] = [@ EXCEPT !.pc = "in_flight", !.wake_at = 0]]
    /\ UNCHANGED << calls_left, now, _GLOBAL_SEM, sems, current_key_index,
                    _key_backoff_until >>
    /\ UNCHANGED << sinkVars, roleVars, scrapeVars, poolVars, pageVars, mode, opts, PANDAS_AVAILABLE, files, pc, collected,
                    flushed_now, bulkVars, asyncVars, call, fetchVars, task_raised >>

\* requests.get returns or raises: the permit is given back, a retryable
\* status backs the key off, and search returns
ApiResponse(x) ==
    /\ mode = "api"
    /\ x \in DOMAIN thread
    /\ thread[x].pc = "in_flight"
    /\ sems' = [sems EXCEPT ![thread[x].sem] = @ + 1]
    /\ \E reply \in Replies :
          /\ task_raised' = reply.raises
          /\ IF ~reply.raises /\ reply.status \in retryable
             THEN \E jitter \in {0, backoff_unit} :
                     _key_backoff_until' =
                         [_key_backoff_until EXCEPT ![thread[x].key_idx] =
                             now + backoff_ticks(@, now, jitter)]
             ELSE _key_backoff_until' = _key_backoff_until
    /\ thread' = [thread EXCEPT ![x] =
          [@ EXCEPT !.pc = "idle", !.sem = NoSem, !.key_idx = 0]]
    /\ UNCHANGED << calls_left, now, _GLOBAL_SEM, _GLOBAL_LAST_CALL, current_key_index,
                    last_issue, too_close >>
    /\ UNCHANGED << sinkVars, roleVars, scrapeVars, poolVars, pageVars, mode, opts, PANDAS_AVAILABLE, files, pc, collected,
                    flushed_now, bulkVars, asyncVars, call, fetchVars >>

NextApi ==
    \/ ApiTick
    \/ \E x \in ApiThreadIds : ApiGetKey(x)
    \/ \E x \in ApiThreadIds : ApiKeyWake(x)
    \/ \E x \in ApiThreadIds : ApiSemCheck(x)
    \/ \E x \in ApiThreadIds : ApiSemCreate(x)
    \/ \E x \in ApiThreadIds : ApiSemEnter(x)
    \/ \E x \in ApiThreadIds : ApiPace(x)
    \/ \E x \in ApiThreadIds : ApiIssue(x)
    \/ \E x \in ApiThreadIds : ApiResponse(x)

SpecApi == InitApi /\ [][NextApi]_vars


(***************************************************************************)
(* scraper/base.py: BaseScraper.fetch_page                                 *)
(***************************************************************************)
max_retries_default == 3

\* what session.get may do: answer with a status, raise requests' Timeout
\* or another RequestException, or raise something else
PageReplies ==
    { [exc |-> "", status |-> s] : s \in {200, 404, 429, 500, 502, 503} }
        \cup { [exc |-> e, status |-> 0] : e \in {"Timeout", "RequestException", "Other"} }

\* the failures fetch_page treats as temporary
transient(reply) ==
    \/ reply.exc \in {"Timeout", "RequestException"}
    \/ reply.exc = "" /\ reply.status \in {429, 503, 502, 500}

\* `if retry_count < self.max_retries:`
may_retry_once_more(retry_count, max_retries) == retry_count <= max_retries

may_retry(retry_count, max_retries) == retry_count < max_retries

\* the except clauses of fetch_page
caught_statuses_only(reply) == FALSE

caught(reply) == reply.exc \in {"Timeout", "RequestException"}

\* one attempt of fetch_page, up to its return, its raise or its backoff sleep
fetch_attempt(reply, retry_count, max_retries) ==
    IF reply.exc = ""
    THEN IF reply.status = 200 THEN "text"
         ELSE IF reply.status \in {429, 503, 502, 500}
              THEN IF may_retry(retry_count, max_retries) THEN "backoff" ELSE "None"
              ELSE "None"
    ELSE IF caught(reply)
         THEN IF may_retry(retry_count, max_retries) THEN "backoff" ELSE "None"
         ELSE "raised"

InitPage ==
    /\ mode = "page"
    /\ opts \in [ max_retries : 0..MaxRetries ]
    /\ page = [ pc |-> "request", retry_count |-> 0, attempts |-> 0,
                replies |-> <<>>, result |-> "pending" ]
    /\ PoolIdle
    /\ ApiIdle
    /\ SinkIdle
    /\ ScrapeIdle
    /\ RoleIdle
    /\ PANDAS_AVAILABLE = FALSE
    /\ files = NoFiles
    /\ pc = "fetch_page"
    /\ collected = <<>>
    /\ flushed_now = FALSE
    /\ call = {}
    /\ task_raised = FALSE
    /\ BulkIdle
    /\ AsyncIdle
    /\ FetchIdle

\* fetch_page(url, retry_count): _pace_host, session.get and the handling
\* of the response or of the exception
PageRequest ==
    /\ mode = "page"
    /\ page.pc = "request"
    /\ \E reply \in PageReplies :
         \E next \in {fetch_attempt(reply, page.retry_count, opts.max_retries)} :
            page' = [page EXCEPT !.attempts = @ + 1,
                                 !.replies = Append(@, reply),
                                 !.pc = CASE next = "backoff" -> "backoff"
                                          [] next = "raised" -> "raised"
                                          [] OTHER -> "returned",
                                 !.result = IF next = "backoff" THEN "pending" ELSE next]
    /\ UNCHANGED << sinkVars, roleVars, scrapeVars, poolVars, apiVars, mode, opts, PANDAS_AVAILABLE, files, pc,
                    collected, flushed_now, bulkVars, asyncVars, call, fetchVars,
                    task_raised >>

\* time.sleep(backoff) is over: `return self.fetch_page(url, retry_count + 1)`
PageRetry ==
    /\ mode = "page"
    /\ page.pc = "backoff"
    /\ page' = [page EXCEPT !.pc = "request", !.retry_count = @ + 1]
    /\ UNCHANGED << sinkVars, roleVars, scrapeVars, poolVars, apiVars, mode, opts, PANDAS_AVAILABLE, files, pc,
                    collected, flushed_now, bulkVars, asyncVars, call, fetchVars,
                    task_raised >>

NextPage ==
    \/ PageRequest
    \/ PageRetry

SpecPage == InitPage /\ [][NextPage]_vars

\* the thread running fetch_page keeps running
FairSpecPage == SpecPage /\ WF_vars(PageRequest) /\ WF_vars(PageRetry)


(***************************************************************************)
(* The role of a listing: classify_role (utils/classifier.py), parse_profile *)
(* (scraper/base.py), which every adapter applies to each listing it        *)
(* returns, and normalize_profile of the async run.  The location,          *)
(* experience and subjects fields, which the role does not depend on, are   *)
(* left out of the listings of this part.                                   *)
(***************************************************************************)
TUTOR_KEYWORDS ==
    { <<"t", "u", "t", "o", "r">>,
      <<"t", "e", "a", "c", "h", "e", "r">>,
      <<"i", "n", "s", "t", "r", "u", "c", "t", "o", "r">>,
      <<"e", "d", "u", "c", "a", "t", "o", "r">>,
      <<"t", "r", "a", "i", "n", "e", "r">>,
      <<"c", "o", "a", "c", "h">>,
      <<"p", "r", "o", "f", "e", "s", "s", "o", "r">>,
      <<"l", "e", "c", "t", "u", "r", "e", "r">>,
      <<"m", "e", "n", "t", "o", "r">>,
      <<"t", "e", "a", "c", "h", "i", "n", "g">>,
      <<"t", "e", "a", "c", "h", "e", "s">>,
      <<"e", "x", "p", "e", "r", "t">> }

STUDENT_KEYWORDS ==
    { <<"s", "t", "u", "d", "e", "n", "t">>,
      <<"l", "e", "a", "r", "n", "e", "r">>,
      <<"u", "n", "d", "e", "r", "g", "r", "a", "d", "u", "a", "t", "e">>,
      <<"g", "r", "a", "d", "u", "a", "t", "e">>,
      <<"s", "t", "u", "d", "y", "i", "n", "g">>,
      <<"p", "u", "r", "s", "u", "i", "n", "g">>,
      <<"e", "n", "r", "o", "l", "l", "e", "d">>,
      <<"p", "u", "p", "i", "l">>,
      <<"s", "c", "h", "o", "l", "a", "r">>,
      <<"l", "e", "a", "r", "n", "i", "n", "g">> }

\* sum(1 for keyword in keywords if keyword in text_lower)
matches(keywords, text_lower) ==
    Cardinality({ keyword \in keywords : Contains(keyword, text_lower) })

\* role_for with ties and no match both Unknown
role_for_ties_unknown(tutor_matches, student_matches) ==
    IF tutor_matches > student_matches THEN "Tutor"
    ELSE IF student_matches > tutor_matches THEN "Student"
    ELSE "Unknown"

\* the role for the two counts
role_for(tutor_matches, student_matches) ==
    IF tutor_matches > student_matches THEN "Tutor"
    ELSE IF student_matches > tutor_matches THEN "Student"
    ELSE IF tutor_matches > 0 THEN "Tutor" ELSE "Unknown"

\* classify_role
classify_role(text) ==
    IF text = <<>> THEN "Unknown"
    ELSE role_for(matches(TUTOR_KEYWORDS, lower(text)),
                  matches(STUDENT_KEYWORDS, lower(text)))

\* the 'role' entry a raw record carries before classification: none, or
\* whatever the site calls it
RawRoles == {"<absent>", "Admin"}

\* the raw records the adapters extract from pages and payloads
RawProfiles ==
    [ name : { <<>>, <<"A", "s", "h", "a", " ", "c", "o", "a", "c", "h">> },
      title : { <<>>, <<"S", "c", "h", "o", "l", "a", "r">> },
      description : { <<>>, <<"T", "u", "t", "o", "r", ",", " ", "s", "t", "u", "d", "e", "n", "t">> },
      profile_link : { <<>>, <<"u", "/", "1">> },
      source : { <<"G", "o", "o", "g", "l", "e">> },
      role : RawRoles ]

\* a parse_profile that leaves the role of the raw record alone
parse_profile_keeps_role(data) == data

\* parse_profile: data['role'] = classify_role(f"{name} {description} {title}")
parse_profile(data) ==
    [ data EXCEPT !.role = classify_role(JoinSpace(<< data.name, data.description,
                                                      data.title >>)) ]

\* `a or b`
or_else(a, b) == IF a = <<>> THEN b ELSE a

\* normalize_profile: no listing (None) for a record without name and link,
\* else a new dict whose role is classify_role(f"{name} {desc}")
normalize_profile(raw, source) ==
    LET name == or_else(raw.name, raw.title)
    IN  IF name = <<>> /\ raw.profile_link = <<>> THEN <<>>
        ELSE << [ name |-> or_else(name, <<"N", "/", "A">>),
                  title |-> IF name # <<>> THEN name \o <<" ", "-", " ", "T", "u", "t", "o", "r">>
                            ELSE <<"T", "u", "t", "o", "r">>,
                  description |-> raw.description,
                  profile_link |-> raw.profile_link,
                  source |-> source,
                  role |-> classify_role(JoinSpace(<< name, raw.description >>)) ] >>

\* the two functions, tabulated once over the raw records
ParsedTable == [data \in RawProfiles |-> parse_profile(data)]
NormalizedTable == [raw \in RawProfiles |-> normalize_profile(raw, <<"S", "u", "p", "e", "r", "p", "r", "o", "f">>)]

\* the dedup of the accumulators: a listing is taken when its key is not
\* empty and new
taken(p, keys) == profile_key(p) # <<>> /\ profile_key(p) \notin keys

InitRoles ==
    /\ mode = "roles"
    /\ opts = <<>>
    /\ returned = <<>>
    /\ classified = {}
    /\ collected = <<>>
    /\ PoolIdle
    /\ ApiIdle
    /\ PageIdle
    /\ SinkIdle
    /\ ScrapeIdle
    /\ PANDAS_AVAILABLE = FALSE
    /\ files = NoFiles
    /\ pc = "scraping"
    /\ flushed_now = FALSE
    /\ call = {}
    /\ task_raised = FALSE
    /\ BulkIdle
    /\ AsyncIdle
    /\ FetchIdle

\* an adapter's scrape, while the run is short of its target:
\* processed = self.parse_profile(profile), appended to the list it returns
RolesParse ==
    /\ mode = "roles"
    /\ returned = <<>>
    /\ Len(collected) < MaxAccumulated
    /\ \E data \in RawProfiles : returned' = << ParsedTable[data] >>
    /\ UNCHANGED << poolVars, apiVars, pageVars, sinkVars, scrapeVars, classified, mode, opts,
                    PANDAS_AVAILABLE, files, pc, collected, flushed_now, bulkVars, asyncVars, call,
                    fetchVars, task_raised >>

\* scrape_task: prof = normalize_profile(item, name.capitalize()), appended
\* to the results when it is not None
RolesNormalize ==
    /\ mode = "roles"
    /\ returned = <<>>
    /\ Len(collected) < MaxAccumulated
    /\ \E raw \in RawProfiles :
         returned' = NormalizedTable[raw]
    /\ UNCHANGED << poolVars, apiVars, pageVars, sinkVars, scrapeVars, classified, mode, opts,
                    PANDAS_AVAILABLE, files, pc, collected, flushed_now, bulkVars, asyncVars, call,
                    fetchVars, task_raised >>

\* the accumulator takes what was returned: for p in batch, dedup against
\* the keys seen, then collected.append / collected.extend
RolesAccumulate ==
    /\ mode = "roles"
    /\ returned # <<>>
    /\ collected' = collected \o SelectSeq(returned, LAMBDA p : taken(p, seen))
    /\ seen' = seen \cup { profile_key(returned[i]) : i \in DOMAIN returned }
    /\ returned' = <<>>
    /\ UNCHANGED << poolVars, apiVars, pageVars, sinkVars, scrapeVars, classified, mode, opts,
                    PANDAS_AVAILABLE, files, pc, flushed_now, bulkVars, queue, unfinished_tasks, worker,
                    call, fetchVars, task_raised >>

NextRoles ==
    \/ RolesParse
    \/ RolesNormalize
    \/ RolesAccumulate

SpecRoles == InitRoles /\ [][NextRoles]_vars


\* the words the texts given to classify_role are made of: tutor keywords,
\* student keywords (one of which contains another), a name
Vocabulary ==
    { <<"t", "u", "t", "o", "r">>, <<"C", "o", "a", "c", "h">>,
      <<"s", "t", "u", "d", "e", "n", "t">>, <<"p", "u", "p", "i", "l">>,
      <<"u", "n", "d", "e", "r", "g", "r", "a", "d", "u", "a", "t", "e">>, <<"A", "s", "h", "a">> }

\* the texts: up to MaxWords words joined by blanks, the empty text included
Texts ==
    { JoinSpace(ws) : ws \in UNION { [1..n -> Vocabulary] : n \in 0..MaxWords } }

InitClassify ==
    /\ mode = "classify"
    /\ opts = <<>>
    /\ returned = <<>>
    /\ \E text \in Texts : classified = { [ text |-> text, role |-> "<pending>" ] }
    /\ collected = <<>>
    /\ PoolIdle
    /\ ApiIdle
    /\ PageIdle
    /\ SinkIdle
    /\ ScrapeIdle
    /\ PANDAS_AVAILABLE = FALSE
    /\ files = NoFiles
    /\ pc = "scraping"
    /\ flushed_now = FALSE
    /\ call = {}
    /\ task_raised = FALSE
    /\ BulkIdle
    /\ AsyncIdle
    /\ FetchIdle

\* the call of classify_role with the text
Classify ==
    /\ mode = "classify"
    /\ \E c \in classified :
         /\ c.role = "<pending>"
         /\ classified' = { [ text |-> c.text, role |-> classify_role(c.text) ] }
    /\ UNCHANGED << poolVars, apiVars, pageVars, sinkVars, scrapeVars, returned, mode, opts,
                    PANDAS_AVAILABLE, files, pc, collected, flushed_now, bulkVars,
                    asyncVars, call, fetchVars, task_raised >>

NextClassify == Classify

SpecClassify == InitClassify /\ [][NextClassify]_vars


(***************************************************************************)
(* scrape(query, limit) of the adapters, one call at a time.  The lists    *)
(* are followed by their lengths.                                          *)
(***************************************************************************)
results_per_page == 10      \* num = 10, start_index = page * 10 + 1
last_start_index == 100     \* `if start_index > 100: break`

Adapters == {"api", "google", "superprof", "urbanpro", "direct"}

\* the limits scrape is called with
Limits == {0, 1, results_per_page, 25, MaxLimit}

\* the number of items a result page or a listing page may hold
PageItems == {0, 3, results_per_page}
HtmlItems == {0, 3, 30}

\* pages_needed = (limit // 10) + 1
pages_needed(limit) == (limit \div results_per_page) + 1

\* the first result of a page: the API counts from 1, the HTML search from 0
start_of(adapter, page_number) ==
    IF adapter = "api" THEN page_number * results_per_page + 1
    ELSE page_number * results_per_page

\* `for profile in profiles: append; if len(all_profiles) >= limit: break`:
\* the number of profiles of a page of n that are appended
appended(n, gathered, limit) ==
    IF n = 0 THEN 0 ELSE Min2(n, Max2(1, limit - gathered))

\* a return without the final slice
whole_list(n, limit) == n

\* all_profiles[:limit]
up_to_limit(n, limit) == Min2(n, limit)

\* what search() or fetch_page plus extraction gives the loop for one page:
\* items, or nothing (search returned None, fetch_page returned None)
PageOutcomes(adapter) ==
    { [ kind |-> "items", n |-> n ] : n \in PageItems }
        \cup { [ kind |-> k, n |-> 0 ] :
                  k \in IF adapter = "api" THEN {"transient", "refused", "raised"}
                        ELSE {"no_html"} }

\* what the loop does once the page was answered: "next" page or "break".
\* The API adapter breaks when search() returned None, the HTML search
\* adapter goes on when fetch_page returned None and breaks on a page
\* without results; both break once limit profiles are gathered.
after_page(adapter, outcome, gathered, limit) ==
    IF outcome.kind = "no_html" THEN "next"
    ELSE IF outcome.kind # "items" THEN "break"
    ELSE IF adapter = "google" /\ outcome.n = 0 THEN "break"
    ELSE IF gathered + appended(outcome.n, gathered, limit) >= limit THEN "break"
    ELSE "next"

InitScrape ==
    /\ mode = "scrape"
    /\ opts = <<>>
    /\ \E adapter \in Adapters, limit \in Limits :
         scrape = [ adapter |-> adapter, limit |-> limit, pc |-> "loop", page |-> 0,
                    all_profiles |-> 0, requested |-> {}, transient_at |-> {},
                    again |-> FALSE, went_on |-> FALSE, result |-> {} ]
    /\ task = <<>>
    /\ RoleIdle
    /\ PoolIdle
    /\ ApiIdle
    /\ PageIdle
    /\ SinkIdle
    /\ PANDAS_AVAILABLE = FALSE
    /\ files = NoFiles
    /\ pc = "scraping"
    /\ collected = <<>>
    /\ flushed_now = FALSE
    /\ call = {}
    /\ task_raised = FALSE
    /\ BulkIdle
    /\ AsyncIdle
    /\ FetchIdle

\* one iteration of `for page in range(pages_needed)` of the search-API
\* adapter and of the HTML search adapter: the request of the page and what
\* the loop does with the answer
ScrapePage ==
    /\ mode = "scrape"
    /\ scrape.pc = "loop"
    /\ scrape.adapter \in {"api", "google"}
    /\ IF scrape.page >= pages_needed(scrape.limit)
       THEN scrape' = [scrape EXCEPT !.pc = "loop_left"]
       ELSE IF scrape.adapter = "api"
               /\ start_of("api", scrape.page) > last_start_index
       THEN scrape' = [scrape EXCEPT !.pc = "loop_left"]
       ELSE \E outcome \in PageOutcomes(scrape.adapter) :
              \E step \in {after_page(scrape.adapter, outcome, scrape.all_profiles,
                                      scrape.limit)} :
                scrape' = [scrape EXCEPT
                    !.requested = @ \cup {start_of(scrape.adapter, scrape.page)},
                    !.transient_at = IF outcome.kind = "transient"
                                     THEN @ \cup {start_of(scrape.adapter, scrape.page)}
                                     ELSE @,
                    !.again = @ \/ start_of(scrape.adapter, scrape.page) \in scrape.transient_at,
                    !.went_on = @ \/ scrape.transient_at # {},
                    !.all_profiles = @ + appended(outcome.n, @, scrape.limit),
                    !.page = IF step = "next" THEN @ + 1 ELSE @,
                    !.pc = IF step = "break" THEN "loop_left" ELSE "loop" ]
    /\ UNCHANGED << poolVars, apiVars, pageVars, sinkVars, roleVars, task, mode, opts,
                    PANDAS_AVAILABLE, files, pc, collected, flushed_now, bulkVars,
                    asyncVars, call, fetchVars, task_raised >>

\* `return all_profiles[:limit]` after the loop
ScrapeReturn ==
    /\ mode = "scrape"
    /\ scrape.pc = "loop_left"
    /\ scrape' = [scrape EXCEPT !.pc = "returned",
                                !.result = {up_to_limit(scrape.all_profiles, scrape.limit)}]
    /\ UNCHANGED << poolVars, apiVars, pageVars, sinkVars, roleVars, task, mode, opts,
                    PANDAS_AVAILABLE, files, pc, collected, flushed_now, bulkVars,
                    asyncVars, call, fetchVars, task_raised >>

\* the Superprof and UrbanPro adapters: one listing page, [] when it could
\* not be fetched, else parse_profile over profiles[:limit]
ScrapeListingPage ==
    /\ mode = "scrape"
    /\ scrape.pc = "loop"
    /\ scrape.adapter \in {"superprof", "urbanpro"}
    /\ \E n \in HtmlItems :
         scrape' = [scrape EXCEPT !.pc = "returned", !.requested = {0},
                                  !.all_profiles = up_to_limit(n, scrape.limit),
                                  !.result = {up_to_limit(n, scrape.limit)}]
    /\ UNCHANGED << poolVars, apiVars, pageVars, sinkVars, roleVars, task, mode, opts,
                    PANDAS_AVAILABLE, files, pc, collected, flushed_now, bulkVars,
                    asyncVars, call, fetchVars, task_raised >>

\* the direct adapter: scrape_vedantu(subject, limit // 2), whose find_all
\* takes limit // 2 cards at most (all of them when that is 0) or which
\* raises, then all_profiles[:limit]
ScrapeDirect ==
    /\ mode = "scrape"
    /\ scrape.pc = "loop"
    /\ scrape.adapter = "direct"
    /\ \E n \in HtmlItems :
         \E found \in {IF scrape.limit \div 2 = 0 THEN n ELSE Min2(n, scrape.limit \div 2)} :
            scrape' = [scrape EXCEPT !.pc = "loop_left", !.requested = {0},
                                     !.all_profiles = found]
    /\ UNCHANGED << poolVars, apiVars, pageVars, sinkVars, roleVars, task, mode, opts,
                    PANDAS_AVAILABLE, files, pc, collected, flushed_now, bulkVars,
                    asyncVars, call, fetchVars, task_raised >>

NextScrape ==
    \/ ScrapePage
    \/ ScrapeReturn
    \/ ScrapeListingPage
    \/ ScrapeDirect

SpecScrape == InitScrape /\ [][NextScrape]_vars


(***************************************************************************)
(* async_playwright_scraper.py: scrape_task                                *)
(***************************************************************************)
Subjects == {"Maths", "Science"}
Cities == {"Pune", "Delhi"}
PerSourceLimits == {1, 3}

\* build_urls: one listing page per site, for the pair
build_urls(subject, city) ==
    << [ name |-> "superprof", url |-> << "https://www.superprof.co.in/lessons/", subject, "/", city, ".html" >> ],
       [ name |-> "urbanpro", url |-> << "https://www.urbanpro.com/", subject, "/in-", city >> ] >>

\* name.capitalize() of the two site names
capitalize(name) ==
    CASE name = "superprof" -> "Superprof"
      [] name = "urbanpro" -> "Urbanpro"
      [] OTHER -> name

\* the query the fallback is given
api_query(subject, city) == << subject, " tutor for class 1 to 12 in ", city, ", India" >>

\* `if status in (403, 429) or (status == 503)`
blocked(status) == status \in {403, 429, 503}

\* `status = resp.status if resp else 0`
Statuses == {0, 200, 403, 404, 429, 503}

\* what api_fallback.scrape(api_query, per_source_limit) may return: up to
\* per_source_limit listings of the search API, none when it is not
\* configured or its first answer is refused
FallbackResults(query, per_source_limit) ==
    { [ k \in 1..m |-> [ source |-> "Google API Search", of |-> query, k |-> k ] ] :
         m \in 0..per_source_limit }

\* the listings of one page: the network payloads, cut to per_source_limit,
\* that normalize_profile did not turn into None
PageResults(entry, per_source_limit) ==
    { [ k \in 1..kept |-> [ source |-> capitalize(entry.name), of |-> entry.url, k |-> k ] ] :
         kept \in 0..Min2(MaxNetworkItems, per_source_limit) }

\* a failure path that returns the fallback's listings alone
fallback_only(results, fallback) == fallback

\* `results.extend(api_fallback.scrape(api_query, per_source_limit))`
after_failure(results, fallback) == results \o fallback

InitTask ==
    /\ mode = "task"
    /\ opts = <<>>
    /\ \E subject \in Subjects, city \in Cities, per_source_limit \in PerSourceLimits :
         task = [ subject |-> subject, city |-> city, per_source_limit |-> per_source_limit,
                  pc |-> "urls", at |-> 1, results |-> <<>>, queries |-> <<>>,
                  last |-> "none", returned |-> {} ]
    /\ scrape = <<>>
    /\ RoleIdle
    /\ PoolIdle
    /\ ApiIdle
    /\ PageIdle
    /\ SinkIdle
    /\ PANDAS_AVAILABLE = FALSE
    /\ files = NoFiles
    /\ pc = "task"
    /\ collected = <<>>
    /\ flushed_now = FALSE
    /\ call = {}
    /\ task_raised = FALSE
    /\ BulkIdle
    /\ AsyncIdle
    /\ FetchIdle

\* where the loop over build_urls is after the entry it was at
next_url(t) ==
    IF t.at + 1 > Len(build_urls(t.subject, t.city)) THEN "close" ELSE "urls"

\* an iteration whose navigation is answered 403, 429 or 503: the fallback's
\* listings are added and the loop continues with the next entry
TaskBlocked ==
    /\ mode = "task"
    /\ task.pc = "urls"
    /\ \E status \in Statuses :
         /\ blocked(status)
         /\ \E fallback \in FallbackResults(api_query(task.subject, task.city),
                                            task.per_source_limit) :
              task' = [task EXCEPT !.results = after_failure(task.results, fallback),
                                   !.queries = Append(task.queries,
                                                      api_query(task.subject, task.city)),
                                   !.last = "blocked",
                                   !.at = task.at + 1,
                                   !.pc = next_url(task)]
    /\ UNCHANGED << poolVars, apiVars, pageVars, sinkVars, roleVars, scrape, mode, opts,
                    PANDAS_AVAILABLE, files, pc, collected, flushed_now, bulkVars,
                    asyncVars, call, fetchVars, task_raised >>

\* an iteration that raises (page.goto or another await of the body): the
\* handler adds the fallback's listings and the loop is over
TaskRaises ==
    /\ mode = "task"
    /\ task.pc = "urls"
    /\ \E fallback \in FallbackResults(api_query(task.subject, task.city),
                                       task.per_source_limit) :
         task' = [task EXCEPT !.results = after_failure(task.results, fallback),
                              !.queries = Append(task.queries,
                                                 api_query(task.subject, task.city)),
                              !.last = "raised",
                              !.pc = "close"]
    /\ UNCHANGED << poolVars, apiVars, pageVars, sinkVars, roleVars, scrape, mode, opts,
                    PANDAS_AVAILABLE, files, pc, collected, flushed_now, bulkVars,
                    asyncVars, call, fetchVars, task_raised >>

\* an iteration whose navigation is answered with any other status (0 when
\* there is no response): the page's normalized payloads are appended
TaskPage ==
    /\ mode = "task"
    /\ task.pc = "urls"
    /\ \E status \in Statuses :
         /\ ~blocked(status)
         /\ \E listings \in PageResults(build_urls(task.subject, task.city)[task.at],
                                        task.per_source_limit) :
              task' = [task EXCEPT !.results = task.results \o listings,
                                   !.last = "page",
                                   !.at = task.at + 1,
                                   !.pc = next_url(task)]
    /\ UNCHANGED << poolVars, apiVars, pageVars, sinkVars, roleVars, scrape, mode, opts,
                    PANDAS_AVAILABLE, files, pc, collected, flushed_now, bulkVars,
                    asyncVars, call, fetchVars, task_raised >>

\* `finally: await context.close()` and `return results`
TaskReturn ==
    /\ mode = "task"
    /\ task.pc = "close"
    /\ task' = [task EXCEPT !.pc = "returned", !.returned = {task.results}]
    /\ UNCHANGED << poolVars, apiVars, pageVars, sinkVars, roleVars, scrape, mode, opts,
                    PANDAS_AVAILABLE, files, pc, collected, flushed_now, bulkVars,
                    asyncVars, call, fetchVars, task_raised >>

NextTask ==
    \/ TaskBlocked
    \/ TaskRaises
    \/ TaskPage
    \/ TaskReturn

SpecTask == InitTask /\ [][NextTask]_vars


(***************************************************************************)
(* Properties                                                              *)
(***************************************************************************)
Range(seq) == {seq[i] : i \in DOMAIN seq}

IsPrefix(s, t) == Len(s) <= Len(t) /\ SubSeq(t, 1, Len(s)) = s

\* the rows of every file bulk writes under the default path
StoredRows == files[TutorsCsv] \o files[StudentsCsv] \o files[AllProfilesCsv]

Stored(p) == \E q \in Paths : CsvRow(p) \in Range(files[q])

\* C1: when the threaded bulk run is over, the rows its periodic and final
\* flushes persisted are exactly the listings of the accumulator: none is
\* missing and none is stored twice.
C1_FlushesPersistAccumulator ==
    (mode = "bulk" /\ pc = "done") =>
        /\ \A i \in DOMAIN collected : Stored(collected[i])
        /\ Len(StoredRows) = Len(collected)

\* C2: in the async run, once the accumulator has reached the target the
\* run eventually does its final flush and returns.
C2_TargetLeadsToReturn ==
    (mode = "async" /\ Len(collected) >= opts.target) ~> (pc = "returned")

\* C3: a save_data call in append mode (split by role, written by the csv
\* module) never removes or replaces a row a file already held: every
\* file's previous rows are still its first rows after the call.
C3_AppendKeepsExistingRows ==
    [][ \A a \in call' :
          (a.append_mode /\ a.separate_by_role /\ ~PANDAS_AVAILABLE) =>
              \A q \in Paths : IsPrefix(files[q], files'[q]) ]_vars

\* C4: a save_data call in append mode that repeats the call before it
\* (same batch, same path) leaves every file as the first call left it.
C4_AppendTwiceSameAsOnce ==
    [][ \A a \in call : (a.append_mode /\ call' = call) => files' = files ]_vars

\* C5: in the async run, right after a periodic flush every listing of the
\* accumulator is in durable storage (stated for accumulators that hold
\* tutors and students only).
C5_PeriodicFlushStoresAccumulator ==
    ( /\ mode = "async"
      /\ flushed_now
      /\ \A i \in DOMAIN collected : is_tutor(collected[i]) \/ is_student(collected[i]) )
        => \A i \in DOMAIN collected : Stored(collected[i])

\* C6: a scrape that raises counts as zero results and never aborts the
\* run, in fetch, bulk and the async workers: the step that handles it
\* leaves the gathered listings and the seen-set as they were, the run is
\* never aborted, and the loop ends only when every source/task was
\* consumed (or, in bulk, the target was reached).
C6_RaisingTaskYieldsNothing ==
    [][ /\ pc' # "aborted"
        /\ task_raised' =>
              /\ collected' = collected
              /\ all_results' = all_results
              /\ seen_keys' = seen_keys
              /\ seen' = seen
        /\ (mode = "async" /\ task_raised' /\ worker' # worker) =>
              unfinished_tasks' = unfinished_tasks - 1
        /\ (mode = "fetch" /\ pc' = "exited") => scrapers = <<>>
        /\ (mode = "bulk" /\ pc' = "final" /\ Len(collected') < opts.target_count) =>
              \A t \in Tasks : futures'[t] = "consumed" ]_vars

\* the last task bulk consumed had raised, the others' listings were
\* accumulated and flushed, and the run completed
C6_Witness ==
    /\ mode = "bulk"
    /\ pc = "done"
    /\ task_raised
    /\ collected # <<>>
    /\ files[TutorsCsv] # <<>>

\* C7: every listing in the bulk accumulator satisfies the configured
\* filters: not a Student when students are excluded, Indian when the
\* region filter is on, and its experience parses to fewer years than
\* max_experience.
C7_AccumulatorPassesFilters ==
    mode = "bulk" =>
        \A i \in DOMAIN collected :
            LET p == collected[i]
                years == parse_experience_years(OrEmpty(p.experience))
            IN  /\ opts.exclude_students => p.role # "Student"
                /\ opts.india_only => is_indian_profile(p)
                /\ years # {}
                /\ \A y \in years : y < opts.max_experience

\* both filters on, something was accumulated and something returned by a
\* scrape was kept out
C7_Witness ==
    /\ mode = "bulk"
    /\ opts.exclude_students
    /\ opts.india_only
    /\ collected # <<>>
    /\ returned_keys \ seen_keys # {}

\* C8 as stated: the listing that survives for a link is never one of a
\* task consumed after another task had already returned that link.
C8_FirstCompletedSurvives == ~late_survivor

\* C8 amended: for every link, at most one listing is in the accumulator,
\* and it is the first one, in the order the orchestrator consumed the
\* results, that passed the filters; a link has a survivor as soon as a
\* listing of it that passes the filters was consumed.
C8_FirstPassingSurvives ==
    mode = "bulk" =>
        /\ \A i, j \in DOMAIN collected :
              ProfileKeyTable[collected[i]] = ProfileKeyTable[collected[j]] => i = j
        /\ \A i \in DOMAIN collected :
              /\ ProfileKeyTable[collected[i]] \in DOMAIN first_passing
              /\ collected[i] = first_passing[ProfileKeyTable[collected[i]]]
        /\ \A k \in DOMAIN first_passing :
              \E i \in DOMAIN collected : ProfileKeyTable[collected[i]] = k

\* two tasks returned the same link with different experience; the first
\* one consumed was filtered out and the later one survives
C8_Witness ==
    /\ mode = "bulk"
    /\ pc = "done"
    /\ late_survivor
    /\ asha_superprof \in Range(collected)

C10_LinklessKeyedByNameSource ==
    \A a \in call :
        (\A i \in DOMAIN a.data : is_tutor(a.data[i])) =>
            \A i \in DOMAIN a.data :
                OrEmpty(a.data[i].profile_link) = <<>> =>
                    \E q \in Paths :
                        Cardinality({j \in DOMAIN files[q] :
                                        KeyTable[files[q][j]] = KeyTable[a.data[i]]}) = 1

\* the file save_data merges a tutor or a student of the batch into
destination(x, output_path) ==
    IF is_tutor(x) THEN tutor_path_of(output_path) ELSE student_path_of(output_path)

\* C11: a save_data call in append mode (split by role) whose batch holds a
\* tutor or a student with an identity key some row of its destination file
\* already has leaves that row in the file, and it stays the only row with
\* that key: the listing of the batch is discarded.
C11_FirstSeenRowKept ==
    [][ \A a \in call' :
          (a.append_mode /\ a.separate_by_role) =>
              \A i \in DOMAIN a.data :
                  (is_tutor(a.data[i]) \/ is_student(a.data[i])) =>
                      \A j \in DOMAIN files[destination(a.data[i], a.output_path)] :
                          LET q == destination(a.data[i], a.output_path)
                              old == files[q][j]
                          IN  KeyTable[old] = KeyTable[a.data[i]] =>
                                  { r \in Range(files'[q]) : KeyTable[r] = KeyTable[old] }
                                      = { old } ]_vars

\* the same, for listings that carry a profile link
C11_FirstSeenLinkKept ==
    [][ \A a \in call' :
          (a.append_mode /\ a.separate_by_role) =>
              \A i \in DOMAIN a.data :
                  ((is_tutor(a.data[i]) \/ is_student(a.data[i]))
                      /\ OrEmpty(a.data[i].profile_link) # <<>>) =>
                      \A j \in DOMAIN files[destination(a.data[i], a.output_path)] :
                          LET q == destination(a.data[i], a.output_path)
                              old == files[q][j]
                          IN  KeyTable[old] = KeyTable[a.data[i]] =>
                                  { r \in Range(files'[q]) : KeyTable[r] = KeyTable[old] }
                                      = { old } ]_vars

\* C12: at every moment of a bulk run at most api_max worker threads
\* (2 by default) are inside an API adapter's scrape and at most html_max
\* (4 by default) inside another adapter's scrape, whatever max_workers.
C12_ScrapesWithinSemaphores ==
    mode = "pool" =>
        /\ Cardinality(scraping_api(futures, opts))
              <= at_least_one(opts.BULK_MAX_CONCURRENT_API)
        /\ Cardinality(scraping_html(futures, opts))
              <= at_least_one(opts.BULK_MAX_CONCURRENT_HTML)

\* the default non-API bound binds: its four permits are taken and a fifth
\* thread waits at the semaphore
C12_Witness ==
    /\ mode = "pool"
    /\ opts.BULK_MAX_CONCURRENT_HTML = html_max_default
    /\ Cardinality(scraping_html(futures, opts)) = html_max_default
    /\ \E t \in PoolTasks : futures[t] = "entered" /\ ~is_api(t, opts)

\* the default API bound binds in the same way
C12_WitnessApi ==
    /\ mode = "pool"
    /\ opts.BULK_MAX_CONCURRENT_API = api_max_default
    /\ Cardinality(scraping_api(futures, opts)) = api_max_default
    /\ \E t \in PoolTasks : futures[t] = "entered" /\ is_api(t, opts)

\* C13: no two requests to the search API are ever sent less than the
\* minimum inter-call interval (250 ms, one tick) apart, whichever threads
\* send them.
C13_CallsSpacedByMinInterval ==
    mode = "api" => ~too_close

\* C14: in a sequential run, the credential get_next_api_key has just
\* returned is not cooling down: its backoff deadline is not in the
\* future, also when the call slept because every credential was backed off.
C14_ReturnedKeyNotBackedOff ==
    (mode = "api" /\ opts.threads = 1) =>
        \A x \in DOMAIN thread :
            thread[x].pc = "have_key" =>
                _key_backoff_until[thread[x].key_idx] <= now

\* the reply the latest attempt of fetch_page got
last_reply == page.replies[Len(page.replies)]

\* C15: fetch_page always ends, and a transient remote error never makes it
\* raise: it backs off and retries only after a transient error and at most
\* max_retries times, returns None when every attempt met one, and returns
\* None at once on a status it does not retry.
C15_FetchPageEndsWithoutRaising ==
    /\ [](mode = "page" =>
            /\ page.pc = "raised" => ~transient(last_reply)
            /\ page.pc = "backoff" =>
                  transient(last_reply) /\ page.retry_count < opts.max_retries
            /\ (page.pc = "returned" /\ \A i \in DOMAIN page.replies :
                                            transient(page.replies[i])) =>
                  page.result = "None" /\ page.retry_count = opts.max_retries
            /\ (page.pc \in {"returned", "raised"} /\ last_reply.exc = ""
                    /\ last_reply.status \notin {200, 429, 500, 502, 503}) =>
                  page.pc = "returned" /\ page.result = "None")
    /\ <>(mode = "page" => page.pc \in {"returned", "raised"})

\* every attempt met a transient error, timeouts and statuses mixed, and
\* fetch_page gave up
C15_Witness ==
    /\ mode = "page"
    /\ page.pc = "returned"
    /\ page.result = "None"
    /\ page.attempts >= 3
    /\ \A i \in DOMAIN page.replies : transient(page.replies[i])
    /\ \E i \in DOMAIN page.replies : page.replies[i].exc = "Timeout"
    /\ \E i \in DOMAIN page.replies : page.replies[i].status = 429

\* C16 as stated: with the default max_retries a fetch_page call makes at
\* most 3 HTTP attempts.
C16_AtMostThreeAttempts ==
    (mode = "page" /\ opts.max_retries = max_retries_default) => page.attempts <= 3

\* C16: with the default max_retries a fetch_page call makes at most
\* max_retries + 1 = 4 HTTP attempts, the first one and three retries,
\* whichever retryable statuses and timeouts the attempts meet.
C16_AtMostRetriesPlusOne ==
    (mode = "page" /\ opts.max_retries = max_retries_default) =>
        page.attempts <= max_retries_default + 1

\* the fourth attempt of a default call has been made and failed too
C16_Witness ==
    /\ mode = "page"
    /\ opts.max_retries = max_retries_default
    /\ page.attempts = max_retries_default + 1
    /\ page.pc = "returned"
    /\ page.result = "None"
    /\ \E i \in DOMAIN page.replies : page.replies[i].exc = "Timeout"
    /\ \E i \in DOMAIN page.replies : page.replies[i].status = 503

\* C17 as stated: a fetch run that got past source selection exits with a
\* non-zero status exactly when the final save step failed or there was no
\* data to save, and with status zero in every other case.
C17_NonZeroWhenSaveFailsOrNoData ==
    mode = "fetch" /\ exit_code # {}
        => (exit_code # {0} <=> (saved_ok = {FALSE} \/ all_results = <<>>))

\* C17 (amended): a fetch run that got past source selection exits with a
\* non-zero status exactly when it reached the final save step and that step
\* failed; with nothing collected, or nothing left after filtering, it exits
\* with status zero without saving.
C17_NonZeroExactlyWhenSaveFails ==
    mode = "fetch" /\ exit_code # {}
        => /\ exit_code \in { {0}, {1} }
           /\ exit_code = {1} <=> saved_ok = {FALSE}
           /\ all_results = <<>> => exit_code = {0} /\ saved_ok = {}

\* the final save step of a fetch run failed and the run exited with status 1
C17_Witness ==
    /\ mode = "fetch"
    /\ exit_code = {1}
    /\ saved_ok = {FALSE}
    /\ all_results # <<>>

\* a fetch run collected nothing and exited with status 0
C17_WitnessNoData ==
    /\ mode = "fetch"
    /\ exit_code = {0}
    /\ all_results = <<>>
    /\ saved_ok = {}

\* the listings of a batch the tabular sink writes: all of them, or, split by
\* role, the tutors and students (all of them when the batch has neither)
written_by_role(x, a) ==
    \/ ~a.separate_by_role
    \/ is_tutor(x) \/ is_student(x)
    \/ \A i \in DOMAIN a.data : ~is_tutor(a.data[i]) /\ ~is_student(a.data[i])

\* C18: a failure to reach the document store does not abort a save.  With
\* output format 'both' and the store unreachable every listing of the batch
\* that the tabular sink writes is in a file and save_data reports success; save_data reports
\* failure only when no sink succeeded (the tabular sink did not run and the
\* store took no documents); a call without the tabular sink leaves the
\* files alone.
C18_StoreFailureDoesNotAbortSave ==
    [][ mode = "sinks" =>
          \A a \in call' :
              LET tabular == /\ a.output_format \in {"csv", "both"}
                             /\ \A i \in DOMAIN a.data :
                                   written_by_role(a.data[i], a) =>
                                       \E q \in Paths : \E j \in DOMAIN files'[q] :
                                           KeyTable[files'[q][j]] = KeyTable[a.data[i]]
                  stored  == /\ a.output_format \in {"mongo", "both"}
                             /\ a.mongo = "inserts"
                             /\ mongo_docs' = mongo_docs + Len(a.data)
              IN  /\ (a.output_format = "both" /\ a.mongo = "unreachable")
                        => tabular /\ saved_ok' = {TRUE} /\ mongo_docs' = mongo_docs
                  /\ saved_ok' = {FALSE} <=> (~tabular /\ ~stored)
                  /\ saved_ok' \in { {TRUE}, {FALSE} }
                  /\ a.output_format \notin {"csv", "both"} => files' = files ]_vars

\* a save with format 'both' met an unreachable store, wrote the tutors file
\* and reported success
C18_Witness ==
    /\ mode = "sinks"
    /\ \E a \in call : a.output_format = "both" /\ a.mongo = "unreachable"
    /\ saved_ok = {TRUE}
    /\ files[TutorsCsv] # <<>>
    /\ mongo_docs = 0

\* a save with format 'mongo' met an unreachable store and reported failure
C18_WitnessNoSink ==
    /\ mode = "sinks"
    /\ \E a \in call : a.output_format = "mongo" /\ a.mongo = "unreachable"
    /\ saved_ok = {FALSE}
    /\ files = NoFiles

RoleValues == {"Tutor", "Student", "Unknown"}

\* C19: every listing an adapter or the async normalizer returns carries a
\* role that is one of Tutor, Student and Unknown, whatever role entry the
\* raw record had, and so does every listing of the accumulator.
C19_RoleIsOneOfThree ==
    mode = "roles" =>
        /\ \A i \in DOMAIN returned :
              "role" \in DOMAIN returned[i] /\ returned[i].role \in RoleValues
        /\ \A i \in DOMAIN collected :
              "role" \in DOMAIN collected[i] /\ collected[i].role \in RoleValues

\* the accumulator holds a listing of role Unknown and one of role Student
C19_Witness ==
    /\ mode = "roles"
    /\ \E i \in DOMAIN collected : collected[i].role = "Unknown"
    /\ \E i \in DOMAIN collected : collected[i].role = "Student"

\* the normalizer returned a Tutor on a tie of the keyword counts
C19_WitnessTie ==
    /\ mode = "roles"
    /\ \E i \in DOMAIN returned :
          /\ returned[i].role = "Tutor"
          /\ returned[i].name = <<"N", "/", "A">>
          /\ returned[i].description = <<"T", "u", "t", "o", "r", ",", " ", "s", "t", "u", "d", "e", "n", "t">>

\* the profile link of a row as it is compared: trimmed, in lower case
compared_link(r) == lower(strip(OrEmpty(r.profile_link)))

\* C20: whatever save_data calls were made, no two rows of a written file
\* have the same non-empty profile_link, compared trimmed and without
\* regard to case.
C20_LinksUniqueInFile ==
    mode = "save" =>
        \A q \in Paths :
            \A i, j \in DOMAIN files[q] :
                (i # j /\ compared_link(files[q][i]) # <<>>)
                    => compared_link(files[q][i]) # compared_link(files[q][j])

\* a call in append mode offered the tutors file a listing whose link differs
\* only by case and a trailing blank from the link of a row already there;
\* the file holds that row and another
C20_Witness ==
    /\ mode = "save"
    /\ \E a \in call :
          /\ a.append_mode /\ a.separate_by_role
          /\ a.data = << asha_google >>
    /\ \E i \in DOMAIN files[TutorsCsv] :
          files[TutorsCsv][i].profile_link = asha_superprof.profile_link
    /\ Len(files[TutorsCsv]) >= 2

\* the keywords of a list that occur in a text, letter case aside
occurring(keywords, text) == { k \in keywords : Contains(k, lower(text)) }

\* C21: the role classify_role returns is a function of the number t of tutor
\* keywords and the number s of student keywords that occur in the text:
\* Tutor when t > s, Student when s > t, Tutor when t = s > 0, Unknown when
\* t = s = 0, and Unknown for the empty text.
C21_RoleFromKeywordCounts ==
    mode = "classify" =>
        \A c \in classified :
            c.role # "<pending>" =>
            LET t == Cardinality(occurring(TUTOR_KEYWORDS, c.text))
                s == Cardinality(occurring(STUDENT_KEYWORDS, c.text))
            IN  /\ t > s => c.role = "Tutor"
                /\ s > t => c.role = "Student"
                /\ (t = s /\ t > 0) => c.role = "Tutor"
                /\ (t = s /\ t = 0) => c.role = "Unknown"
                /\ c.text = <<>> => c.role = "Unknown"

\* classify_role returned Tutor for a text with as many tutor keywords as
\* student keywords
C21_Witness ==
    /\ mode = "classify"
    /\ \E c \in classified :
          /\ c.role = "Tutor"
          /\ Cardinality(occurring(TUTOR_KEYWORDS, c.text)) = 2
          /\ Cardinality(occurring(STUDENT_KEYWORDS, c.text)) = 2

\* classify_role returned Unknown for the empty text
C21_WitnessEmpty ==
    /\ mode = "classify"
    /\ classified = { [ text |-> <<>>, role |-> "Unknown" ] }

\* C22: at every moment the number of requests to the search API that are
\* in flight, over all threads, is at most the configured concurrency cap
\* max(1, GOOGLE_API_MAX_CONCURRENT), the first calls that create the
\* class-level semaphore included.
C22_InFlightWithinCap ==
    mode = "api" =>
        Cardinality(in_flight(thread)) <= at_least_one(opts.GOOGLE_API_MAX_CONCURRENT)

\* the same once one semaphore only was ever created
C22_InFlightWithinCapOneSemaphore ==
    (mode = "api" /\ Len(sems) <= 1) =>
        Cardinality(in_flight(thread)) <= at_least_one(opts.GOOGLE_API_MAX_CONCURRENT)

\* C23: in a sequential run get_next_api_key goes to sleep exactly when
\* every credential is in backoff at the moment of the call; when the
\* deadline of at least one credential has passed (or it never failed) the
\* call returns at once, with a credential that is not in backoff.
C23_SleepsOnlyWhenAllBackedOff ==
    [][ (mode = "api" /\ opts.threads = 1) =>
          \A x \in DOMAIN thread :
              (thread[x].pc = "idle" /\ thread'[x].pc # "idle") =>
                  /\ thread'[x].pc \in {"key_sleep", "have_key"}
                  /\ thread'[x].pc = "key_sleep"
                        <=> \A k \in Keys(opts) : _key_backoff_until[k] > now
                  /\ thread'[x].pc = "have_key"
                        => _key_backoff_until[thread'[x].key_idx] <= now ]_vars

\* a sequential call returned a credential at once while the other
\* credential was in backoff
C23_Witness ==
    /\ mode = "api"
    /\ opts.threads = 1
    /\ \E x \in DOMAIN thread :
          /\ thread[x].pc = "have_key"
          /\ thread[x].wake_at = 0
          /\ _key_backoff_until[thread[x].key_idx] <= now
          /\ \E k \in Keys(opts) : _key_backoff_until[k] > now

\* a sequential call went to sleep with every credential in backoff
C23_WitnessSleep ==
    /\ mode = "api"
    /\ opts.threads = 1
    /\ opts.keys = 2
    /\ \E x \in DOMAIN thread : thread[x].pc = "key_sleep"
    /\ \A k \in Keys(opts) : _key_backoff_until[k] > now

\* C24: in the search-API adapter a page request answered with HTTP
\* 429/500/502/503 is made again within the adapter before the call yields
\* an empty result, and the pagination of the query goes on after a single
\* such answer: a scrape that returned after a transient answer has
\* requested that page again and has made a request after it.
C24_TransientAnswerRetried ==
    (mode = "scrape" /\ scrape.adapter = "api" /\ scrape.pc = "returned"
        /\ scrape.transient_at # {})
        => scrape.again /\ scrape.went_on

\* what the adapter does instead: the page answered with a transient status
\* is the last one it requests, and it is requested once
C24_TransientAnswerEndsPagination ==
    (mode = "scrape" /\ scrape.adapter = "api" /\ scrape.transient_at # {})
        => /\ ~scrape.again /\ ~scrape.went_on
           /\ scrape.pc \in {"loop_left", "returned"}
           /\ scrape.transient_at = {start_of("api", scrape.page)}

\* C30: whatever the adapter and the limit (0 included), scrape(query, limit)
\* returns at most limit listings, and the search-API adapter requests no
\* result page whose start index is above 100.
C30_AtMostLimitListings ==
    mode = "scrape" =>
        /\ \A n \in scrape.result : n <= scrape.limit
        /\ scrape.adapter = "api" =>
              \A start_index \in scrape.requested : start_index <= last_start_index

\* the search-API adapter was asked for more than 100 listings, requested
\* the page starting at 91, left the loop at start index 101 and returned
\* what it had, less than the limit
C30_Witness ==
    /\ mode = "scrape"
    /\ scrape.adapter = "api"
    /\ scrape.pc = "returned"
    /\ scrape.limit > last_start_index
    /\ 91 \in scrape.requested
    /\ start_of("api", scrape.page) > last_start_index
    /\ \E n \in scrape.result : n > 0 /\ n < scrape.limit

\* with limit 0 the search-API adapter gathered one profile and returned none
C30_WitnessZero ==
    /\ mode = "scrape"
    /\ scrape.adapter = "api"
    /\ scrape.limit = 0
    /\ scrape.all_profiles = 1
    /\ scrape.result = {0}

\* a listing page held more profiles than the limit
C30_WitnessListingPage ==
    /\ mode = "scrape"
    /\ scrape.adapter = "superprof"
    /\ scrape.limit = 25
    /\ scrape.result = {25}

\* a listing of a batch saved with separate_by_role that reaches a file: a
\* tutor, a student, or any listing of a batch without tutors and students
split_writes(x, data) ==
    \/ is_tutor(x) \/ is_student(x)
    \/ \A i \in DOMAIN data : ~is_tutor(data[i]) /\ ~is_student(data[i])

\* C25: the threaded run cancels no submitted task.  Once the consume loop
\* is left (target reached or every future consumed) the final flush comes
\* first; the run returns only after that, and only when every submitted
\* task has run, those the loop never consumed included; a task that has
\* run never becomes pending again.
C25_ReturnsAfterEverySubmittedTask ==
    [][ mode = "bulk" =>
          /\ (pc # "done" /\ pc' = "done")
                => pc = "shutdown" /\ \A t \in Tasks : futures[t] # "pending"
          /\ (pc # "shutdown" /\ pc' = "shutdown")
                => /\ pc = "final"
                   /\ Len(collected) > saved_total
                         => \A i \in (saved_total + 1)..Len(collected) :
                               split_writes(collected[i],
                                            SubSeq(collected, saved_total + 1, Len(collected)))
                                  => \E q \in Paths : \E j \in DOMAIN files'[q] :
                                        KeyTable[files'[q][j]] = KeyTable[collected[i]]
          /\ \A t \in Tasks : futures[t] # "pending" => futures'[t] # "pending"
          /\ pc = "done" => pc' = "done" ]_vars

\* the run returned with the target reached and a task that ran to its end
\* without ever being consumed by the loop
C25_Witness ==
    /\ mode = "bulk"
    /\ pc = "done"
    /\ Len(collected) >= opts.target_count
    /\ \E t \in Tasks :
          /\ futures[t] \in {"returned", "caught"}
          /\ \A i \in DOMAIN finished : finished[i] # t

\* the workers of the async path that are inside a scrape_task
in_task == { w \in DOMAIN worker : worker[w].at = "scraping" }

\* the pairs the queue still holds
queued == { queue[i] : i \in DOMAIN queue }

\* C26: in the async path a worker pulls a pair from the queue only when the
\* accumulator holds fewer than target listings at the moment of the pull;
\* a pulled pair leaves the queue for good and is held by one worker only,
\* and a run that returns below the target has processed every pair once.
C26_PullsOnlyBelowTargetAndOnce ==
    /\ [](mode = "async" =>
            /\ \A v, w \in in_task : v # w => worker[v].item # worker[w].item
            /\ \A w \in in_task : worker[w].item \notin queued
            /\ Cardinality(queued) = Len(queue)
            /\ unfinished_tasks = Len(queue) + Cardinality(in_task)
            /\ (pc = "returned" /\ Len(collected) < opts.target)
                   => queue = <<>> /\ unfinished_tasks = 0)
    /\ [][(mode = "async" /\ queue' # queue) =>
            /\ Len(collected') < opts.target
            /\ \E n \in 1..Len(queue) :
                 /\ queue' = SubSeq(queue, n + 1, Len(queue))
                 /\ \A i \in 1..n : \E w \in DOMAIN worker :
                        /\ worker'[w] = [at |-> "scraping", item |-> queue[i]]
                        /\ worker[w] # worker'[w]]_vars

\* a worker left the loop with pairs still queued because the accumulator
\* had reached the target
C26_Witness ==
    /\ mode = "async"
    /\ queue # <<>>
    /\ Len(collected) >= opts.target
    /\ \E w \in DOMAIN worker : worker[w].at = "returned"
    /\ \E w \in DOMAIN worker : worker[w].at = "scraping"

\* a run returned below the target after every pair was processed
C26_WitnessAllProcessed ==
    /\ mode = "async"
    /\ pc = "returned"
    /\ Len(collected) < opts.target
    /\ collected # <<>>
    /\ unfinished_tasks = 0

\* C27: in the async path the cancellation after queue.join() loses no
\* result.  In the step that cancels the workers and returns, no worker is
\* inside a scrape_task (every worker has left its loop), the accumulator is
\* what it was, and every accumulated listing that the split by role writes
\* has a row in a file after the final flush.
C27_CancellationLosesNothing ==
    [][ (mode = "async" /\ pc = "join" /\ pc' = "returned") =>
          /\ in_task = {}
          /\ \A w \in DOMAIN worker : worker[w].at = "returned" /\ worker'[w] = worker[w]
          /\ collected' = collected
          /\ \A i \in DOMAIN collected :
                ( \/ is_tutor(collected[i]) \/ is_student(collected[i])
                  \/ \A k \in DOMAIN collected :
                        ~is_tutor(collected[k]) /\ ~is_student(collected[k]) )
                    => \E q \in Paths : \E j \in DOMAIN files'[q] :
                          AsyncKeyTable[files'[q][j]] = AsyncKeyTable[collected[i]] ]_vars

\* a run of two workers went through join, cancellation and final flush
\* with two or more accumulated listings, and a file holds them
C27_Witness ==
    /\ mode = "async"
    /\ pc = "returned"
    /\ Len(worker) >= 2
    /\ Len(collected) >= 2
    /\ opts.flush_every >= 2
    /\ \E q \in Paths : Len(files[q]) >= 2

\* C28: in an async scrape task, an iteration whose navigation is answered
\* 403, 429 or 503, or that raises, queries the search API once with the
\* query built from the task's own subject and city, and keeps what was
\* gathered before: the results after the step are the results before it
\* followed by listings of that query; the task then returns all of them.
C28_FailureFallsBackAndKeepsResults ==
    /\ [][ (mode = "task" /\ task'.pc # "returned" /\ task'.last \in {"blocked", "raised"}) =>
             /\ task'.queries = Append(task.queries, api_query(task.subject, task.city))
             /\ IsPrefix(task.results, task'.results)
             /\ \A i \in (Len(task.results) + 1)..Len(task'.results) :
                   /\ task'.results[i].source = "Google API Search"
                   /\ task'.results[i].of = api_query(task.subject, task.city) ]_vars
    /\ [][ mode = "task" => IsPrefix(task.results, task'.results) ]_vars
    /\ [](mode = "task" => (task.pc = "returned" <=> task.returned = {task.results}))

\* a task gathered listings from the first site, was blocked on the second
\* and returned the page's listings followed by the fallback's
C28_Witness ==
    /\ mode = "task"
    /\ task.pc = "returned"
    /\ task.last = "blocked"
    /\ Len(task.queries) = 1
    /\ \E r \in task.returned :
          /\ Len(r) >= 2
          /\ r[1].source = "Superprof"
          /\ r[Len(r)].source = "Google API Search"

\* a task whose second navigation raised returned the first page's listings
\* and the fallback's
C28_WitnessRaised ==
    /\ mode = "task"
    /\ task.pc = "returned"
    /\ task.last = "raised"
    /\ task.at = 2
    /\ \E r \in task.returned :
          /\ Len(r) >= 2
          /\ r[1].source = "Superprof"
          /\ r[Len(r)].source = "Google API Search"

\* a pool thread ended a task in this step
worker_step == \E t \in Tasks : futures[t] = "pending" /\ futures'[t] # "pending"

\* the state bulk's threads could share: accumulator, seen-set, flushed
\* count and the files the flushes write
orchestrator_state == << collected, seen_keys, saved_total, files >>

\* C29: in the threaded path a step in which a pool thread runs a task to
\* its end leaves the accumulator, the seen-set, the flushed count and the
\* files as they were; every step that changes one of them is a step of the
\* consumption loop (which takes one completed future) or the final flush
\* after it, the two never in the same step, so the writes and the flushes
\* follow one another in the orchestrator's own order.
C29_OnlyOrchestratorWritesSharedState ==
    /\ [][ (mode = "bulk" /\ worker_step) => orchestrator_state' = orchestrator_state ]_vars
    /\ [][ (mode = "bulk" /\ orchestrator_state' # orchestrator_state) =>
             /\ ~worker_step
             /\ \/ /\ pc = "loop"
                   /\ finished # <<>>
                   /\ futures[Head(finished)] # "consumed"
                   /\ futures'[Head(finished)] = "consumed"
                \/ /\ pc = "final"
                   /\ pc' = "shutdown"
                   /\ collected' = collected
                   /\ seen_keys' = seen_keys ]_vars

\* the orchestrator, still in its loop, has accumulated and flushed the
\* listings of one task, and a pool thread has meanwhile run another task
\* to its end, whose result waits to be consumed
C29_Witness ==
    /\ mode = "bulk"
    /\ pc = "loop"
    /\ collected # <<>>
    /\ saved_total > 0
    /\ \E t \in Tasks : futures[t] = "consumed"
    /\ \E t \in Tasks : futures[t] = "returned"

\* the listing x of a save_data call has a row in a file after the call
persisted(x) ==
    \E q \in Paths : \E j \in DOMAIN files'[q] : KeyTable[files'[q][j]] = KeyTable[x]

\* C31: a save_data call with CSV output and role splitting leaves every
\* listing of its batch in some file, whatever the listing's role, a
\* listing that is neither Tutor nor Student beside Tutors or Students
\* included.
C31_EveryRolePersisted ==
    [][ mode = "save" =>
          \A a \in call' :
              (a.output_format \in {"csv", "both"} /\ a.separate_by_role)
                  => \A i \in DOMAIN a.data :
                        (~is_tutor(a.data[i]) /\ ~is_student(a.data[i]))
                            => persisted(a.data[i]) ]_vars

\* the same for the batches that hold no Tutor and no Student: these reach
\* the third write of the split
C31_UnclassifiedBatchPersisted ==
    [][ mode = "save" =>
          \A a \in call' :
              ( /\ a.output_format \in {"csv", "both"}
                /\ a.separate_by_role
                /\ \A k \in DOMAIN a.data : ~is_tutor(a.data[k]) /\ ~is_student(a.data[k]) )
                  => \A i \in DOMAIN a.data : persisted(a.data[i]) ]_vars

\* what the save_data call of a bulk flush returns for the slice it is given
flush_result(data) ==
    save_data(files, data, opts.output, opts.output_path, TRUE, TRUE,
              PANDAS_AVAILABLE, "unreachable")

\* C32: in the bulk path the flushed count advances past a listing only in
\* a step whose save_data call, given the listings from the old count on,
\* reported success.
C32_FlushedOnlyWhenSaved ==
    [][ (mode = "bulk" /\ saved_total' > saved_total)
           => flush_result(SubSeq(collected', saved_total + 1, saved_total')).ok ]_vars

\* a periodic flush whose save_data call reported failure moved the flushed
\* count all the same
C32_WitnessFailedFlushCounted ==
    /\ mode = "bulk"
    /\ flushed_now
    /\ saved_total = Len(collected)
    /\ saved_total > 0
    /\ opts.output = "mongo"
    /\ \A q \in Paths : files[q] = <<>>

\* the slice collected[saved_total:] as a flush is given it
unflushed(all_collected, saved) == SubSeq(all_collected, saved + 1, Len(all_collected))

\* C33: in the bulk path 0 <= saved_total <= len(collected) in every state,
\* saved_total never decreases and the accumulator only grows at its end; a
\* consume step either flushes nothing or hands save_data the slice from
\* the old saved_total to the end of the accumulator and moves saved_total
\* there, and leaves fewer than flush_every listings unflushed; the final
\* flush hands over the slice from saved_total on, so that when the run is
\* over every index of the accumulator was in exactly one slice.
C33_FlushedCountAndSlices ==
    /\ [](mode = "bulk" => saved_total \in 0..Len(collected))
    /\ [][ mode = "bulk" =>
             /\ saved_total' >= saved_total
             /\ IsPrefix(collected, collected')
             /\ (pc = "loop" /\ finished' # finished /\ futures' # futures
                   /\ Len(finished') < Len(finished) /\ pc' # "aborted") =>
                   /\ Len(collected') - saved_total' < opts.flush_every
                   /\ \/ /\ saved_total' = saved_total
                         /\ files' = files
                         /\ ~flushed_now'
                      \/ /\ saved_total' = Len(collected')
                         /\ saved_total' > saved_total
                         /\ files' = flush_result(unflushed(collected', saved_total)).files
                         /\ flushed_now'
             /\ (pc = "final" /\ pc' = "shutdown") =>
                   /\ collected' = collected
                   /\ saved_total' = saved_total
                   /\ files' = IF unflushed(collected, saved_total) # <<>>
                               THEN flush_result(unflushed(collected, saved_total)).files
                               ELSE files
             /\ (pc \in {"shutdown", "done"} \/ ~(pc = "loop" \/ pc = "final"))
                   => (files' = files /\ collected' = collected
                       /\ saved_total' = saved_total) ]_vars

\* a run is over after two periodic flushes, each of the one listing its
\* consume step added, and a final flush with nothing left to hand over
C33_Witness ==
    /\ mode = "bulk"
    /\ pc = "done"
    /\ opts.flush_every = 1
    /\ \A t \in Tasks : futures[t] = "consumed"
    /\ Len(collected) = 2
    /\ saved_total = Len(collected)
    /\ Len(files[TutorsCsv]) = 2

\* a run is over whose only flush was the final one, of the whole
\* accumulator
C33_WitnessFinalOnly ==
    /\ mode = "bulk"
    /\ pc = "done"
    /\ saved_total = 0
    /\ collected # <<>>
    /\ files[TutorsCsv] # <<>>

\* the identity keys of the accumulator's listings, by the key function of
\* the path that runs
keys_of_collected ==
    { (IF mode = "bulk" THEN ProfileKeyTable ELSE AsyncKeyTable)[collected[i]] :
         i \in DOMAIN collected }

\* the seen-set of the path that runs
seen_set == IF mode = "bulk" THEN seen_keys ELSE seen

\* C34: in the threaded and in the async path, in every state, no two
\* listings of the accumulator have the same identity key, no listing has
\* an empty key, and the seen-set is exactly the set of the keys of the
\* accumulator's listings.
C34_SeenSetIsKeysOfAccumulator ==
    mode \in {"bulk", "async"} =>
        /\ Cardinality(keys_of_collected) = Len(collected)
        /\ <<>> \notin keys_of_collected
        /\ seen_set = keys_of_collected

\* the same for the threaded path alone
C34_SeenKeysIsKeysOfAccumulatorBulk ==
    mode = "bulk" =>
        /\ Cardinality(keys_of_collected) = Len(collected)
        /\ <<>> \notin keys_of_collected
        /\ seen_keys = keys_of_collected

\* an async worker's batch held a listing with a new key and, after it, one
\* whose key could not be computed: the first key is in the seen-set and
\* its listing is not in the accumulator
C34_WitnessSeenWithoutListing ==
    /\ mode = "async"
    /\ seen \ keys_of_collected # {}

\* C35: for every output path a save_data call that splits by role writes
\* the students to a file other than the tutors' file, and after a call
\* whose batch holds tutors and students every tutor of the batch has a row
\* in the tutors' file.
C35_StudentFileIsNotTutorFile ==
    [][ mode = "split" =>
          \A a \in call' :
              /\ student_path_of(a.output_path) # tutor_path_of(a.output_path)
              /\ students_of(a.data) # <<>> =>
                    \A i \in DOMAIN a.data :
                        is_tutor(a.data[i]) =>
                            \E j \in DOMAIN files'[tutor_path_of(a.output_path)] :
                                KeyTable[files'[tutor_path_of(a.output_path)][j]]
                                    = KeyTable[a.data[i]] ]_vars

\* the same for the output paths that contain 'tutors', and for no path
C35_StudentFileDiffersUnderTutorsPath ==
    [][ mode = "split" =>
          \A a \in call' :
              (a.output_path = None \/ \E i \in DOMAIN a.output_path : a.output_path[i] = "tutors")
                => /\ student_path_of(a.output_path) # tutor_path_of(a.output_path)
                   /\ students_of(a.data) # <<>> =>
                        \A i \in DOMAIN a.data :
                            is_tutor(a.data[i]) =>
                                \E j \in DOMAIN files'[tutor_path_of(a.output_path)] :
                                    KeyTable[files'[tutor_path_of(a.output_path)][j]]
                                        = KeyTable[a.data[i]] ]_vars

\* a call under a path without 'tutors' was given a tutor and a student:
\* the one file holds the student's row and not the tutor's
C35_WitnessTutorOverwritten ==
    /\ mode = "split"
    /\ \E a \in call :
          /\ a.output_path = OutCsv
          /\ a.data = << tom, dev >>
          /\ \A j \in DOMAIN files[OutCsv] : KeyTable[files[OutCsv][j]] # KeyTable[tom]
          /\ \E j \in DOMAIN files[OutCsv] : KeyTable[files[OutCsv][j]] = KeyTable[dev]

\* the pool has run every submitted task to its end, or the orchestrator
\* has left the executor block
run_over ==
    \/ mode = "pool" /\ \A t \in PoolTasks : futures[t] \in {"returned", "caught"}
    \/ mode = "bulk" /\ pc = "done"

\* C36: a bulk run cannot deadlock.  In the pool every permit is either
\* free or held by a task inside its scrape, whether earlier scrapes
\* returned or raised, and every submitted task ends; the orchestrator's
\* loop ends and the run returns, which it does only through the final
\* flush and after every task has run.
C36_BulkRunCannotDeadlock ==
    /\ [](mode = "pool" =>
            /\ api_sem + Cardinality(scraping_api(futures, opts))
                  = at_least_one(opts.BULK_MAX_CONCURRENT_API)
            /\ html_sem + Cardinality(scraping_html(futures, opts))
                  = at_least_one(opts.BULK_MAX_CONCURRENT_HTML))
    /\ [][(mode = "bulk" /\ pc # "done" /\ pc' = "done")
             => (pc = "shutdown" /\ \A t \in Tasks : futures[t] # "pending")]_vars
    /\ [][(mode = "bulk" /\ pc # "shutdown" /\ pc' = "shutdown") => pc = "final"]_vars
    /\ <>run_over

\* every task of the pool has ended, one of them by an exception, and every
\* permit is free again although more tasks than permits were submitted
C36_Witness ==
    /\ mode = "pool"
    /\ \A t \in PoolTasks : futures[t] \in {"returned", "caught"}
    /\ \E t \in PoolTasks : futures[t] = "caught" /\ is_api(t, opts)
    /\ opts.only_api
    /\ api_sem = 1
    /\ opts.max_workers > 1

\* the listings one consumed task added to the accumulator
contributed(before, after) == Len(after) - Len(before)

\* C37: in the threaded path the overshoot of the target is bounded by one
\* task.  The accumulator grows only in a round of the consume loop that
\* starts below the target, by at most one task's results, so at every
\* moment, hence at the end, it holds fewer than target plus what the last
\* consumed task contributed and at most target - 1 + the per-task limit.
C37_OvershootBoundedByOneTask ==
    /\ [][(mode = "bulk" /\ collected' # collected)
             => /\ pc = "loop"
                /\ Len(collected) < opts.target_count
                /\ contributed(collected, collected') <= MaxBatch
                /\ Len(collected') < opts.target_count + contributed(collected, collected')]_vars
    /\ [](mode = "bulk" => Len(collected) <= opts.target_count - 1 + MaxBatch)

\* the run is over with the largest overshoot: the last consumed task found
\* the accumulator one short of the target and added a full batch
C37_Witness ==
    /\ mode = "bulk"
    /\ pc = "done"
    /\ opts.target_count > 1
    /\ Len(collected) = opts.target_count - 1 + MaxBatch

\* the listings fetch's other two filters let through
passes_role_and_india(p, o) ==
    /\ ~(o.exclude_students /\ p.role = "Student")
    /\ ~(o.india_only /\ ~IndianTable[p])

\* C38: in fetch with max_experience set the experience filter applies to
\* Tutors only.  Every Tutor of the result has a known number of years
\* strictly below max_experience; every listing with another role that the
\* student and India filters let through is in the result whatever its
\* experience, unless the max_save cap cut the list.  In bulk every
\* accumulated listing, of whatever role, has known years below the
\* threshold.
C38_ExperienceFilterTutorsOnlyInFetch ==
    /\ [][(mode = "fetch" /\ pc = "scrape_loop" /\ pc' = "exited"
             /\ opts.max_experience # {})
            => /\ \A i \in DOMAIN all_results' :
                     all_results'[i].role = "Tutor"
                        => \E y \in YearsTable[all_results'[i]] :
                              \A m \in opts.max_experience : y < m
               /\ Len(all_results') # opts.max_save
                     => \A i \in DOMAIN all_results :
                           (all_results[i].role # "Tutor"
                              /\ passes_role_and_india(all_results[i], opts))
                             => \E j \in DOMAIN all_results' :
                                   all_results'[j] = all_results[i]]_vars
    /\ [](mode = "bulk"
            => \A i \in DOMAIN collected :
                  \E y \in YearsTable[collected[i]] : y < opts.max_experience)

\* a fetch over all sources with the experience filter on has ended: the
\* result holds a tutor with 3 years and the centre with 12 years
C38_Witness ==
    /\ mode = "fetch"
    /\ pc = "exited"
    /\ opts.max_experience = {max_experience_default}
    /\ \E i, j \in DOMAIN all_results :
          /\ all_results[i] = veda
          /\ all_results[j].role = "Tutor"
    /\ \E y \in YearsTable[veda] : y >= max_experience_default

\* a bulk run has accumulated a listing that is not a Tutor
C38_WitnessBulkNonTutor ==
    /\ mode = "bulk"
    /\ \E i \in DOMAIN collected : collected[i].role # "Tutor"

\* no credential is in backoff at time t
none_backed_off(until, t) == \A k \in DOMAIN until : t >= until[k]

\* no credential has been backed off since the adapter was built
never_backed_off(until) == \A k \in DOMAIN until : until[k] = 0

\* get_next_api_key calls made so far in a sequential run
calls_made == opts.calls - calls_left

\* C39: with N >= 1 credentials current_key_index stays within 0..N-1, and
\* in a sequential run a get_next_api_key call made while no credential is
\* in backoff returns the credential under the index and advances the index
\* by exactly one, modulo N; as long as no credential was ever backed off
\* the calls therefore return 0, 1, ..., N-1, 0, ... in this order.
C39_IndexInRangeAndRoundRobin ==
    /\ [](mode = "api" => current_key_index \in 0..(opts.keys - 1))
    /\ [](mode = "api" /\ opts.threads = 1 /\ never_backed_off(_key_backoff_until)
            => current_key_index = calls_made % opts.keys)
    /\ [][(mode = "api" /\ opts.threads = 1 /\ calls_left' = calls_left - 1
             /\ none_backed_off(_key_backoff_until, now))
            => /\ thread'[1].pc = "have_key"
               /\ thread'[1].key_idx = current_key_index
               /\ thread'[1].key_idx = IF never_backed_off(_key_backoff_until)
                                       THEN (calls_made' - 1) % opts.keys
                                       ELSE thread'[1].key_idx
               /\ current_key_index' = (current_key_index + 1) % opts.keys]_vars

\* a sequential run with several credentials and none ever backed off: the
\* rotation has gone once around and the last call returned credential 0
\* again
C39_Witness ==
    /\ mode = "api"
    /\ opts.threads = 1
    /\ opts.keys > 1
    /\ never_backed_off(_key_backoff_until)
    /\ calls_made = opts.keys + 1
    /\ thread[1].pc = "have_key"
    /\ thread[1].key_idx = 0
    /\ current_key_index = 1

\* a call made after a backoff has expired: the index was not at 0 and the
\* call returned the credential under it
C39_WitnessAfterBackoff ==
    /\ mode = "api"
    /\ opts.threads = 1
    /\ opts.keys > 1
    /\ ~never_backed_off(_key_backoff_until)
    /\ none_backed_off(_key_backoff_until, now)
    /\ thread[1].pc = "have_key"
    /\ current_key_index = (thread[1].key_idx + 1) % opts.keys


=============================================================================
